---- MODULE Spec2Model ----
(***************************************************************************)
(* Rollback netplay coordinator of RMG: the control surface of             *)
(* RMG-Core/Netplay.cpp, the session object of RMG-Core/RollbackNetplay.cpp *)
(* and the per-frame hook of RMG-Core/Emulation.cpp.                        *)
(*                                                                         *)
(* The sync engine behind the session handle (the ggpo calls) is modelled *)
(* by the definitions named Eng..., after section 4.E of the               *)
(* specification.  The emulator core (the M64CMD commands) is a black box  *)
(* whose outcomes are inputs of the actions.                               *)
(*                                                                         *)
(* The state store of Netplay.cpp is modelled twice: by its control flow   *)
(* (SaveEmulatorState, LoadEmulatorState, with the emulator's and the      *)
(* compressor's answers as inputs) and with the bytes it handles (the      *)
(* definitions named ...Bytes).  Its timing and throughput statistics      *)
(* (g_stateMetrics) are left out.                                          *)
(***************************************************************************)
EXTENDS Integers, Sequences, FiniteSets, TLC

\* ------------------------------------------------------------------ bounds
MaxFrame == 3           \* frames the emulator executes in a run of Spec
CtlFrames == 2          \* ... in a run of SpecCtl
StallFrames == 10       \* ... in a run of SpecStall
MaxRollbacks == 2       \* timesync rollback signals accepted in a session
MaxConfirm == 2         \* remote inputs that arrive in one drain
PayloadRoom == 2        \* bytes of a pool buffer left for the emulator's state
CompressedRoom == 2     \* bytes of a pool buffer reserved for the deflated state
SizeBits == 16          \* width of size_t (an int has fewer bits)
InputFrames == 1        \* frames played in a run of SpecInput
SignalFrames == 4       \* frames played in a run of SpecSignal
StopFrames == 2         \* frames played in a run of SpecStop
SeqFrames == 2          \* frames played in a run of SpecSeq
IdleFrames == 1         \* frames played in a run of SpecIdle
EmuFrames == 1          \* frames played in an emulation of SpecEmu

\* ------------------------------------------------------- program constants
ROLLBACK_MAX_PREDICTION_FRAMES == 8
PoolMaxBuffers == 4
MinPlayers == 2
MaxPlayersLimit == 4
HeaderSize == 36
ROLLBACK_STATE_MAGIC == 1380076371
GGPO_MAX_PLAYERS == 4
ROLLBACK_STATE_VERSION == 1
\* m_bufferSize, from which SaveEmulatorState takes the header and the room for
\* the deflated state to obtain the room for the emulator's state
BufferSize == HeaderSize + CompressedRoom + PayloadRoom

\* ------------------------------------------------------------ input sets
PlayerArgs == {0, 1, 3, 5}
MaxPlayersArgs == {1, 2, 4, 5}
FrameDelayArgs == {0, 1}
RemoteVals == {0, 1}
FramesAhead == {0, 1, 2}
PingVals == {20}
BehindVals == {1}

EventCodes == {"CONNECTED_TO_PEER", "DISCONNECTED_FROM_PEER",
               "CONNECTION_INTERRUPTED", "CONNECTION_RESUMED", "TIMESYNC"}

\* what the network hands to one drain of the engine: nothing, one event, or
\* the authoritative remote input of the next k frames (all with value val)
NetInputs ==
    {[type |-> "none", code |-> "", frames_ahead |-> 0, k |-> 0, val |-> 0]}
    \cup {[type |-> "event", code |-> c, frames_ahead |-> 0, k |-> 0, val |-> 0] :
             c \in EventCodes \ {"TIMESYNC"}}
    \cup {[type |-> "event", code |-> "TIMESYNC", frames_ahead |-> n, k |-> 0, val |-> 0] :
             n \in FramesAhead}
    \cup {[type |-> "input", code |-> "", frames_ahead |-> 0, k |-> k, val |-> v] :
             k \in 1..MaxConfirm, v \in RemoteVals}

\* outcome of ggpo_get_network_stats inside UpdateMetrics
NoStats == [ok |-> FALSE, ping |-> 0, behind |-> 0]
StatsInputs == {NoStats}
               \cup {[ok |-> TRUE, ping |-> p, behind |-> b] : p \in PingVals, b \in BehindVals}

SaveOutcomes == {"ok", "emuFail", "compressFail"}
MallocOutcomes == {TRUE}

NoNet == [type |-> "none", code |-> "", frames_ahead |-> 0, k |-> 0, val |-> 0]
CtlNetInputs ==
    {NoNet,
     [type |-> "event", code |-> "CONNECTED_TO_PEER", frames_ahead |-> 0, k |-> 0, val |-> 0],
     [type |-> "event", code |-> "DISCONNECTED_FROM_PEER", frames_ahead |-> 0, k |-> 0, val |-> 0]}
StallNetInputs ==
    {NoNet,
     [type |-> "event", code |-> "CONNECTED_TO_PEER", frames_ahead |-> 0, k |-> 0, val |-> 0],
     [type |-> "input", code |-> "", frames_ahead |-> 0, k |-> 1, val |-> 0]}
InitFailures == {"none", "start", "player", "delay"}
\* the events whose handling a reader of the metrics may meet
ViewerEvents ==
    {[type |-> "event", code |-> "TIMESYNC", frames_ahead |-> n, k |-> 0, val |-> 0] :
        n \in {0, 1, 2}}
\* events only, with timesync hints of every sign
SignalNetInputs ==
    {NoNet}
    \cup {[type |-> "event", code |-> c, frames_ahead |-> 0, k |-> 0, val |-> 0] :
             c \in EventCodes \ {"TIMESYNC"}}
    \cup {[type |-> "event", code |-> "TIMESYNC", frames_ahead |-> n, k |-> 0, val |-> 0] :
             n \in {-1, 0, 1, 2}}
\* buffers handed to a load that no save produced: their header, the stream
\* behind it and the length the caller states
ForeignHeaders ==
    [magic : {ROLLBACK_STATE_MAGIC, 0}, version : {ROLLBACK_STATE_VERSION, 2},
     frame : {0}, uncompressedSize : {PayloadRoom, BufferSize + 1},
     compressedSize : {2, 4}, inputSequence : {1}]
ForeignData == {<<[b |-> 1, n |-> PayloadRoom]>>, <<[b |-> 1, n |-> BufferSize + 1]>>}
ForeignLens == {-1, 0, HeaderSize, HeaderSize + 2, HeaderSize + 4}

\* what the emulator's input plugin reports for a controller: the button
\* word (every single bit of a 16-bit word, no bit, two bits, all defined
\* bits, all bits) and the stick
NativeWords ==
    {0} \cup {2 ^ k : k \in 0..15} \cup {2 ^ 8 + 2 ^ 15, 2 ^ 14 - 1, 2 ^ 16 - 1}
Sticks == {-128, 0, 127}
\* what ReadController reports: every button word with one stick position,
\* and every stick position with one button word
NoReport == [buttons |-> 0, x |-> 0, y |-> 0]
ControllerReports ==
    {[buttons |-> b, x |-> -128, y |-> 127] : b \in NativeWords}
    \cup {[buttons |-> 2 ^ 14 - 1, x |-> x, y |-> y] : x \in Sticks, y \in Sticks}
\* player numbers and player counts that init accepts
InputPlayers == 1..4
InputCounts == {2, 4}

\* ------------------------------------------------------------ error texts
ErrNone == "none"
ErrStdActive == "Cannot initialize rollback netplay when standard netplay is active"
ErrInvalidArgument == "Invalid player number or max players for rollback netplay"
ErrAlreadyActive == "RollbackNetplay: Another instance is already active"
ErrStartSession == "RollbackNetplay: Failed to start GGPO session"
ErrAddPlayer == "RollbackNetplay: Failed to add player"
ErrFrameDelay == "RollbackNetplay: Failed to set frame delay"
ErrFailedInit == "Failed to initialize rollback netplay"
ErrPoolSave == "Failed to obtain state buffer from pool"
ErrEmuSave == "Failed to save emulator state"
ErrCompress == "Failed to compress state data"
ErrPoolLoad == "Failed to obtain buffer from pool for decompression"
ErrEmuLoad == "Failed to load emulator state"
ErrInvalidBuffer == "Invalid state buffer or size"
ErrBadMagic == "Invalid state format (wrong magic number)"
ErrVersion == "Unsupported state version"
ErrTruncated == "State buffer is smaller than expected"
ErrDecompress == "Failed to decompress state data"

VARIABLES
    \* Netplay.cpp file statics
    l_HasInitNetplay, l_HasInitRollbackNetplay, l_RollbackNetplay,
    l_RollbackLocalPlayer, l_RollbackMaxPlayers,
    \* RollbackNetplayImpl
    instancePtr, ggpoSession, localPlayer, maxPlayers, initialized,
    currentFrame, currentInputSequence, lastSavedFrameInputSequence,
    localPlayerHandle, callbacksSet, rollbackJustOccurred, metrics,
    \* Emulation.cpp global, the state buffer pool, the error sink
    g_currentInputSequence, m_freeBuffers, m_usedBuffers, coreError,
    \* the sync engine behind ggpoSession
    engState, engFrame, frontier, lastRemote, ring, peersConnected, localAdded,
    \* the emulator
    emuFrame,
    \* position of the frame hook and the calls it has made on the session
    pc, hookLog,
    \* what the last control-surface call returned, and the last rollback
    ret, rb,
    \* the snapshots a caller of the state store holds, and the store's last
    \* operation
    held, io,
    \* the last operation on controller input
    pad,
    \* threads that run beside each other: where each one is inside its
    \* function, and what it has read
    thr,
    \* Emulation.cpp: the frame callback record, and whether CoreStartEmulation
    \* is inside M64CMD_EXECUTE
    frameCallbackData, emulation

vars == <<l_HasInitNetplay, l_HasInitRollbackNetplay, l_RollbackNetplay,
          l_RollbackLocalPlayer, l_RollbackMaxPlayers,
          instancePtr, ggpoSession, localPlayer, maxPlayers, initialized,
          currentFrame, currentInputSequence, lastSavedFrameInputSequence,
          localPlayerHandle, callbacksSet, rollbackJustOccurred, metrics,
          g_currentInputSequence, m_freeBuffers, m_usedBuffers, coreError,
          engState, engFrame, frontier, lastRemote, ring, peersConnected, localAdded,
          emuFrame, pc, hookLog, ret, rb, held, io, pad, thr,
          frameCallbackData, emulation>>

\* the state as one record, so that a handler is a function from state to state
Cur ==
    [l_HasInitNetplay |-> l_HasInitNetplay,
     l_HasInitRollbackNetplay |-> l_HasInitRollbackNetplay,
     l_RollbackNetplay |-> l_RollbackNetplay,
     l_RollbackLocalPlayer |-> l_RollbackLocalPlayer,
     l_RollbackMaxPlayers |-> l_RollbackMaxPlayers,
     instancePtr |-> instancePtr, ggpoSession |-> ggpoSession,
     localPlayer |-> localPlayer, maxPlayers |-> maxPlayers,
     initialized |-> initialized, currentFrame |-> currentFrame,
     currentInputSequence |-> currentInputSequence,
     lastSavedFrameInputSequence |-> lastSavedFrameInputSequence,
     localPlayerHandle |-> localPlayerHandle, callbacksSet |-> callbacksSet,
     rollbackJustOccurred |-> rollbackJustOccurred, metrics |-> metrics,
     g_currentInputSequence |-> g_currentInputSequence,
     m_freeBuffers |-> m_freeBuffers, m_usedBuffers |-> m_usedBuffers,
     coreError |-> coreError,
     engState |-> engState, engFrame |-> engFrame, frontier |-> frontier,
     lastRemote |-> lastRemote, ring |-> ring,
     peersConnected |-> peersConnected, localAdded |-> localAdded,
     emuFrame |-> emuFrame, pc |-> pc, hookLog |-> hookLog,
     ret |-> ret, rb |-> rb, held |-> held, io |-> io, pad |-> pad,
     thr |-> thr, frameCallbackData |-> frameCallbackData,
     emulation |-> emulation]

Set(w) ==
    /\ l_HasInitNetplay' = w.l_HasInitNetplay
    /\ l_HasInitRollbackNetplay' = w.l_HasInitRollbackNetplay
    /\ l_RollbackNetplay' = w.l_RollbackNetplay
    /\ l_RollbackLocalPlayer' = w.l_RollbackLocalPlayer
    /\ l_RollbackMaxPlayers' = w.l_RollbackMaxPlayers
    /\ instancePtr' = w.instancePtr
    /\ ggpoSession' = w.ggpoSession
    /\ localPlayer' = w.localPlayer
    /\ maxPlayers' = w.maxPlayers
    /\ initialized' = w.initialized
    /\ currentFrame' = w.currentFrame
    /\ currentInputSequence' = w.currentInputSequence
    /\ lastSavedFrameInputSequence' = w.lastSavedFrameInputSequence
    /\ localPlayerHandle' = w.localPlayerHandle
    /\ callbacksSet' = w.callbacksSet
    /\ rollbackJustOccurred' = w.rollbackJustOccurred
    /\ metrics' = w.metrics
    /\ g_currentInputSequence' = w.g_currentInputSequence
    /\ m_freeBuffers' = w.m_freeBuffers
    /\ m_usedBuffers' = w.m_usedBuffers
    /\ coreError' = w.coreError
    /\ engState' = w.engState
    /\ engFrame' = w.engFrame
    /\ frontier' = w.frontier
    /\ lastRemote' = w.lastRemote
    /\ ring' = w.ring
    /\ peersConnected' = w.peersConnected
    /\ localAdded' = w.localAdded
    /\ emuFrame' = w.emuFrame
    /\ pc' = w.pc
    /\ hookLog' = w.hookLog
    /\ ret' = w.ret
    /\ rb' = w.rb
    /\ held' = w.held
    /\ io' = w.io
    /\ pad' = w.pad
    /\ thr' = w.thr
    /\ frameCallbackData' = w.frameCallbackData
    /\ emulation' = w.emulation

\* ---------------------------------------------------------------- helpers
Max2(a, b) == IF a >= b THEN a ELSE b

\* Let(v, LAMBDA x : e) is e with x standing for the value v
Let(v, In(_)) == In(v)

SeqToSet(s) == {s[i] : i \in 1..Len(s)}

\* std::vector::erase of the first element equal to b
RemoveFirst(s, b) ==
    LET i == CHOOSE j \in 1..Len(s) : s[j] = b /\ \A h \in 1..(j - 1) : s[h] # b
    IN  SubSeq(s, 1, i - 1) \o SubSeq(s, i + 1, Len(s))

NoRollback ==
    [happened |-> FALSE, s |-> 0, c |-> 0, advances |-> 0, emuBefore |-> 0, emuLoaded |-> 0]

Ret(op, ok) == [op |-> op, ok |-> ok]

\* a header of the state format with nothing in it
NoHeader ==
    [magic |-> 0, version |-> 0, frame |-> 0, uncompressedSize |-> 0,
     compressedSize |-> 0, inputSequence |-> 0]

\* the record of a state store operation: what was asked (the header and the
\* length given to a load, the payload the emulator produced for a save, the
\* number of snapshots held, whether an allocation would succeed) and what
\* happened (the result, whether a pool buffer was taken and the emulator
\* called, the capacity given to the inflater, the bytes handed to the
\* emulator, the checksum returned, the pointer given to a free, whether
\* the free put it into the free list and the error the free reported)
NoIo ==
    [op |-> "none", ok |-> TRUE, err |-> "", hdr |-> NoHeader, len |-> 0,
     payload |-> <<>>, live |-> 0, malloc |-> TRUE, outcome |-> "ok",
     acquired |-> FALSE, emuCalled |-> FALSE, capacity |-> 0,
     given |-> <<>>, checksum |-> 0, buf |-> 0, released |-> FALSE]

\* RollbackMetrics::Reset; avgRollbackFrames is kept as the quotient n/d
MetricsReset ==
    [rollbackFrames |-> 0, totalRollbacks |-> 0, predictedFrames |-> 0,
     maxRollbackFrames |-> 0, avgRollbackFrames |-> [n |-> 0, d |-> 1],
     pingMs |-> 0, remoteFrameAdvantage |-> 0]

\* the fields of a freshly constructed RollbackNetplayImpl; localPlayerHandle
\* has no initializer (0 stands for the indeterminate value)
ImplConstruct(w) ==
    [w EXCEPT !.ggpoSession = FALSE, !.localPlayer = 0, !.maxPlayers = 0,
              !.initialized = FALSE, !.currentFrame = 0,
              !.currentInputSequence = 0, !.lastSavedFrameInputSequence = 0,
              !.localPlayerHandle = 0, !.callbacksSet = FALSE,
              !.rollbackJustOccurred = FALSE, !.metrics = MetricsReset]

\* ------------------------------------------------------- state buffer pool
\* StateBufferPool::getBuffer; a buffer is named by a number, 0 is nullptr
PoolGetBuffer(w, mallocOk) ==
    IF w.m_freeBuffers # <<>>
    THEN LET b == w.m_freeBuffers[Len(w.m_freeBuffers)]
         IN  [w |-> [w EXCEPT !.m_freeBuffers = SubSeq(@, 1, Len(@) - 1),
                              !.m_usedBuffers = Append(@, b)],
              buf |-> b]
    ELSE IF Len(w.m_usedBuffers) < PoolMaxBuffers /\ mallocOk
    THEN LET b == CHOOSE n \in 1..PoolMaxBuffers :
                      /\ n \notin SeqToSet(w.m_usedBuffers)
                      /\ \A m \in 1..(n - 1) : m \in SeqToSet(w.m_usedBuffers)
         IN  [w |-> [w EXCEPT !.m_usedBuffers = Append(@, b)], buf |-> b]
    ELSE [w |-> w, buf |-> 0]

\* StateBufferPool::releaseBuffer that leaves the buffer in the used list
PoolReleaseBuffer_NoErase(w, b) ==
    IF b = 0 THEN w
    ELSE IF b \in SeqToSet(w.m_usedBuffers)
    THEN [w EXCEPT !.m_freeBuffers = Append(@, b)]
    ELSE w

\* StateBufferPool::releaseBuffer
PoolReleaseBuffer(w, b) ==
    IF b = 0 THEN w
    ELSE IF b \in SeqToSet(w.m_usedBuffers)
    THEN [w EXCEPT !.m_freeBuffers = Append(@, b),
                   !.m_usedBuffers = RemoveFirst(@, b)]
    ELSE w

\* ------------------------------------------------------------ state store
\* AdvanceEmulatorFrame: reports success, the emulator is not touched
AdvanceEmulatorFrame(w) == [w |-> w, ok |-> TRUE]

\* SaveEmulatorState that keeps the pool buffer when the compressor fails
SaveEmulatorState_KeepsBufferOnFailure(w, frame, mallocOk, outcome) ==
    Let(PoolGetBuffer(w, mallocOk), LAMBDA g :
    IF g.buf = 0
    THEN [w |-> [w EXCEPT !.coreError = ErrPoolSave], ok |-> FALSE, snap |-> <<>>]
    ELSE IF outcome = "emuFail"
    THEN [w |-> [PoolReleaseBuffer(g.w, g.buf) EXCEPT !.coreError = ErrEmuSave],
          ok |-> FALSE, snap |-> <<>>]
    ELSE IF outcome = "compressFail"
    THEN [w |-> [g.w EXCEPT !.coreError = ErrCompress], ok |-> FALSE, snap |-> <<>>]
    ELSE [w |-> g.w, ok |-> TRUE,
          snap |-> [frame |-> frame, buf |-> g.buf, emu |-> w.emuFrame,
                    seq |-> w.g_currentInputSequence]])

\* SaveEmulatorState.  outcome is what the emulator and the compressor answer;
\* a snapshot is the pool buffer with its header (frame, inputSequence) and
\* the emulator state it captures, named by the frame the emulator is at
SaveEmulatorState(w, frame, mallocOk, outcome) ==
    Let(PoolGetBuffer(w, mallocOk), LAMBDA g :
    IF g.buf = 0
    THEN [w |-> [w EXCEPT !.coreError = ErrPoolSave], ok |-> FALSE, snap |-> <<>>]
    ELSE IF outcome = "emuFail"
    THEN [w |-> [PoolReleaseBuffer(g.w, g.buf) EXCEPT !.coreError = ErrEmuSave],
          ok |-> FALSE, snap |-> <<>>]
    ELSE IF outcome = "compressFail"
    THEN [w |-> [PoolReleaseBuffer(g.w, g.buf) EXCEPT !.coreError = ErrCompress],
          ok |-> FALSE, snap |-> <<>>]
    ELSE [w |-> g.w, ok |-> TRUE,
          snap |-> [frame |-> frame, buf |-> g.buf, emu |-> w.emuFrame,
                    seq |-> w.g_currentInputSequence]])

\* LoadEmulatorState that leaves g_currentInputSequence as it is
LoadEmulatorState_KeepsSequence(w, snap, mallocOk, emuLoadOk) ==
    Let(PoolGetBuffer(w, mallocOk), LAMBDA g :
    IF g.buf = 0
    THEN [w |-> [w EXCEPT !.coreError = ErrPoolLoad], ok |-> FALSE]
    ELSE IF ~emuLoadOk
    THEN [w |-> [PoolReleaseBuffer(g.w, g.buf) EXCEPT !.coreError = ErrEmuLoad],
          ok |-> FALSE]
    ELSE [w |-> [PoolReleaseBuffer(g.w, g.buf) EXCEPT !.emuFrame = snap.emu],
          ok |-> TRUE])

\* LoadEmulatorState of a snapshot produced by SaveEmulatorState (its header
\* passes the magic, version and length checks and its payload inflates)
LoadEmulatorState(w, snap, mallocOk, emuLoadOk) ==
    Let(PoolGetBuffer(w, mallocOk), LAMBDA g :
    IF g.buf = 0
    THEN [w |-> [w EXCEPT !.coreError = ErrPoolLoad], ok |-> FALSE]
    ELSE IF ~emuLoadOk
    THEN [w |-> [PoolReleaseBuffer(g.w, g.buf) EXCEPT !.coreError = ErrEmuLoad],
          ok |-> FALSE]
    ELSE [w |-> [PoolReleaseBuffer(g.w, g.buf) EXCEPT
                    !.emuFrame = snap.emu,
                    !.g_currentInputSequence = snap.seq],
          ok |-> TRUE])

\* FreeEmulatorState that keeps the buffer out of the pool
FreeEmulatorState_NoRelease(w, buf) == w

\* FreeEmulatorState
FreeEmulatorState(w, buf) == PoolReleaseBuffer(w, buf)

\* ------------------------------------------------- the state format, bytes
Bytes == {0, 1}

\* what the emulator may write: any state of at most PayloadRoom bytes
Payloads == UNION {[1..n -> Bytes] : n \in 0..PayloadRoom}

\* what the buffer's state region holds before the emulator writes into it
Backgrounds == [1..PayloadRoom -> Bytes]

\* the state region after the emulator wrote p into it
Region(p, bg) == [i \in 1..PayloadRoom |-> IF i <= Len(p) THEN p[i] ELSE bg[i]]

\* "Find out how big the state actually is": the scan for the last byte that
\* is not zero, starting from the full room
ActualUncompressedSize(region) ==
    IF \E i \in 1..PayloadRoom : region[i] # 0
    THEN CHOOSE i \in 1..PayloadRoom :
             region[i] # 0 /\ \A j \in (i + 1)..PayloadRoom : region[j] = 0
    ELSE PayloadRoom

\* CalculateChecksum: a running checksum over the bytes and their number
RECURSIVE CalculateChecksum(_)
CalculateChecksum(data) ==
    IF data = <<>> THEN 0
    ELSE (3 * CalculateChecksum(SubSeq(data, 1, Len(data) - 1))
            + data[Len(data)] + 1) % 65521

\* the deflated form of a byte sequence: its runs, two bytes each
RECURSIVE Deflate(_)
Deflate(src) ==
    IF src = <<>> THEN <<>>
    ELSE Let(Deflate(Tail(src)), LAMBDA rest :
         IF rest # <<>> /\ rest[1].b = Head(src)
         THEN <<[b |-> Head(src), n |-> rest[1].n + 1]>> \o Tail(rest)
         ELSE <<[b |-> Head(src), n |-> 1]>> \o rest)

RECURSIVE Inflate(_)
Inflate(runs) ==
    IF runs = <<>> THEN <<>>
    ELSE [i \in 1..runs[1].n |-> runs[1].b] \o Inflate(Tail(runs))

\* CompressData: fails when the deflated form does not fit into dstLen bytes
CompressData(src, dstLen) ==
    Let(Deflate(src), LAMBDA z :
        IF 2 * Len(z) > dstLen
        THEN [ok |-> FALSE, data |-> <<>>, size |-> 0]
        ELSE [ok |-> TRUE, data |-> z, size |-> 2 * Len(z)])

\* DecompressData of the stream src, of which srcLen bytes may be read, into a
\* destination said to have room for dstLen bytes: succeeds when the stream
\* is complete and its output fits; written is what the inflater stored
DecompressData(src, srcLen, dstLen) ==
    Let(Inflate(SubSeq(src, 1, IF srcLen \div 2 < Len(src) THEN srcLen \div 2
                                                          ELSE Len(src))),
        LAMBDA out :
        [ok |-> 2 * Len(src) <= srcLen /\ Len(out) <= dstLen,
         out |-> SubSeq(out, 1, IF Len(out) < dstLen THEN Len(out) ELSE dstLen),
         written |-> IF Len(out) < dstLen THEN Len(out) ELSE dstLen])

\* an int converted to size_t, as a comparison with sizeof does
SizeT(x) == x % (2 ^ SizeBits)

\* SaveEmulatorState with the bytes: the emulator writes the state p into the
\* buffer's state region (emuOk), the region is measured, deflated into the
\* reserved room and described by the header
SaveEmulatorStateBytes(w, frame, p, bg, mallocOk, emuOk) ==
    Let(SubSeq(Region(p, bg), 1, ActualUncompressedSize(Region(p, bg))),
        LAMBDA state :
    Let(CompressData(state, CompressedRoom), LAMBDA c :
    Let(SaveEmulatorState(w, frame, mallocOk,
            IF ~emuOk THEN "emuFail" ELSE IF ~c.ok THEN "compressFail" ELSE "ok"),
        LAMBDA r :
        [w |-> r.w, ok |-> r.ok,
         env |-> IF ~r.ok THEN <<>>
                 ELSE [buf |-> r.snap.buf,
                       hdr |-> [magic |-> ROLLBACK_STATE_MAGIC,
                                version |-> ROLLBACK_STATE_VERSION,
                                frame |-> frame,
                                uncompressedSize |-> Len(state),
                                compressedSize |-> c.size,
                                inputSequence |-> w.g_currentInputSequence],
                       data |-> c.data,
                       len |-> HeaderSize + c.size,
                       checksum |-> CalculateChecksum(state),
                       payload |-> p]])))

\* the checks LoadEmulatorState makes before it touches the pool, without
\* the check of the magic number
ValidateEnvelope_NoMagic(hdr, len) ==
    IF SizeT(len) <= HeaderSize THEN ErrInvalidBuffer
    ELSE IF hdr.version # ROLLBACK_STATE_VERSION THEN ErrVersion
    ELSE IF SizeT(hdr.compressedSize + HeaderSize) > SizeT(len) THEN ErrTruncated
    ELSE ErrNone

\* the checks LoadEmulatorState makes before it touches the pool
ValidateEnvelope(hdr, len) ==
    IF SizeT(len) <= HeaderSize THEN ErrInvalidBuffer
    ELSE IF hdr.magic # ROLLBACK_STATE_MAGIC THEN ErrBadMagic
    ELSE IF hdr.version # ROLLBACK_STATE_VERSION THEN ErrVersion
    ELSE IF SizeT(hdr.compressedSize + HeaderSize) > SizeT(len) THEN ErrTruncated
    ELSE ErrNone

LoadResult(w, ok, acquired, emuCalled, capacity, given) ==
    [w |-> w, ok |-> ok, acquired |-> acquired, emuCalled |-> emuCalled,
     capacity |-> capacity, given |-> given]

\* LoadEmulatorState with the bytes: env is the buffer (its header and the
\* stream behind it), len the length the caller states
LoadEmulatorStateBytes(w, env, len, mallocOk, emuLoadOk) ==
    IF ValidateEnvelope(env.hdr, len) # ErrNone
    THEN LoadResult([w EXCEPT !.coreError = ValidateEnvelope(env.hdr, len)],
                    FALSE, FALSE, FALSE, 0, <<>>)
    ELSE
    Let(PoolGetBuffer(w, mallocOk), LAMBDA g :
    IF g.buf = 0
    THEN LoadResult([w EXCEPT !.coreError = ErrPoolLoad], FALSE, FALSE, FALSE, 0, <<>>)
    ELSE
    Let(DecompressData(env.data, env.hdr.compressedSize, env.hdr.uncompressedSize),
        LAMBDA d :
    IF ~d.ok
    THEN LoadResult([PoolReleaseBuffer(g.w, g.buf) EXCEPT !.coreError = ErrDecompress],
                    FALSE, TRUE, FALSE, env.hdr.uncompressedSize, <<>>)
    ELSE IF ~emuLoadOk
    THEN LoadResult([PoolReleaseBuffer(g.w, g.buf) EXCEPT !.coreError = ErrEmuLoad],
                    FALSE, TRUE, TRUE, env.hdr.uncompressedSize, d.out)
    ELSE LoadResult([PoolReleaseBuffer(g.w, g.buf) EXCEPT
                        !.g_currentInputSequence = env.hdr.inputSequence],
                    TRUE, TRUE, TRUE, env.hdr.uncompressedSize, d.out)))

\* ------------------------------------------- RollbackNetplayImpl callbacks
\* SaveGameState_Callback that does not look at the instance pointer
SaveGameState_Callback_NoNullCheck(w, frame, mallocOk, outcome) ==
    SaveEmulatorState(
        [w EXCEPT !.lastSavedFrameInputSequence = w.currentInputSequence],
        frame, mallocOk, outcome)

SaveGameState_Callback(w, frame, mallocOk, outcome) ==
    IF ~w.instancePtr \/ ~w.callbacksSet
    THEN [w |-> w, ok |-> FALSE, snap |-> <<>>]
    ELSE SaveEmulatorState(
             [w EXCEPT !.lastSavedFrameInputSequence = w.currentInputSequence],
             frame, mallocOk, outcome)

LoadGameState_Callback(w, snap, mallocOk, emuLoadOk) ==
    IF ~w.instancePtr \/ ~w.callbacksSet
    THEN [w |-> w, ok |-> FALSE]
    ELSE LoadEmulatorState(w, snap, mallocOk, emuLoadOk)

FreeBuffer_Callback(w, buf) ==
    IF w.instancePtr /\ w.callbacksSet THEN FreeEmulatorState(w, buf) ELSE w

AdvanceFrame_Callback(w) ==
    IF ~w.instancePtr \/ ~w.callbacksSet
    THEN [w |-> w, ok |-> FALSE]
    ELSE AdvanceEmulatorFrame([w EXCEPT !.currentFrame = @ + 1])

\* UpdateMetrics: the switch on the event code, then the network stats probe
UpdateMetrics(w, ev, stats) ==
    Let(CASE ev.code = "CONNECTED_TO_PEER" -> MetricsReset
          [] ev.code = "DISCONNECTED_FROM_PEER" -> MetricsReset
          [] ev.code = "TIMESYNC" ->
                 [w.metrics EXCEPT !.remoteFrameAdvantage = ev.frames_ahead]
          [] OTHER -> w.metrics,
        LAMBDA m1 :
            [w EXCEPT !.metrics =
                IF stats.ok
                THEN [m1 EXCEPT !.pingMs = stats.ping,
                                !.predictedFrames = stats.behind]
                ELSE m1])

\* OnEvent_Callback without the comparison that guards maxRollbackFrames
OnEvent_Callback_NoMaxCheck(w, ev, stats) ==
    IF ~w.instancePtr THEN w
    ELSE Let(UpdateMetrics(w, ev, stats), LAMBDA u :
         IF ev.code = "TIMESYNC" /\ ev.frames_ahead > 0
         THEN LET rollbackFrames == ev.frames_ahead
                  total == u.metrics.rollbackFrames + rollbackFrames
                  count == u.metrics.totalRollbacks + 1
              IN  [u EXCEPT !.rollbackJustOccurred = TRUE,
                            !.metrics = [u.metrics EXCEPT
                                !.rollbackFrames = total,
                                !.totalRollbacks = count,
                                !.maxRollbackFrames = rollbackFrames,
                                !.avgRollbackFrames = [n |-> total, d |-> count]]]
         ELSE u)

\* OnEvent_Callback that takes a hint of zero frames for a rollback as well
OnEvent_Callback_CountsZero(w, ev, stats) ==
    IF ~w.instancePtr THEN w
    ELSE Let(UpdateMetrics(w, ev, stats), LAMBDA u :
         IF ev.code = "TIMESYNC" /\ ev.frames_ahead >= 0
         THEN LET rollbackFrames == ev.frames_ahead
                  total == u.metrics.rollbackFrames + rollbackFrames
                  count == u.metrics.totalRollbacks + 1
              IN  [u EXCEPT !.rollbackJustOccurred = TRUE,
                            !.metrics = [u.metrics EXCEPT
                                !.rollbackFrames = total,
                                !.totalRollbacks = count,
                                !.maxRollbackFrames = Max2(@, rollbackFrames),
                                !.avgRollbackFrames = [n |-> total, d |-> count]]]
         ELSE u)

\* OnEvent_Callback
OnEvent_Callback(w, ev, stats) ==
    IF ~w.instancePtr THEN w
    ELSE Let(UpdateMetrics(w, ev, stats), LAMBDA u :
         IF ev.code = "TIMESYNC" /\ ev.frames_ahead > 0
         THEN LET rollbackFrames == ev.frames_ahead
                  total == u.metrics.rollbackFrames + rollbackFrames
                  count == u.metrics.totalRollbacks + 1
              IN  [u EXCEPT !.rollbackJustOccurred = TRUE,
                            !.metrics = [u.metrics EXCEPT
                                !.rollbackFrames = total,
                                !.totalRollbacks = count,
                                !.maxRollbackFrames = Max2(@, rollbackFrames),
                                !.avgRollbackFrames = [n |-> total, d |-> count]]]
         ELSE u)

\* RollbackJustOccurred that leaves the flag as it is
RollbackJustOccurred_NoClear(w) == [w |-> w, ok |-> w.rollbackJustOccurred]

\* RollbackJustOccurred: read and clear
RollbackJustOccurred(w) ==
    [w |-> [w EXCEPT !.rollbackJustOccurred = FALSE], ok |-> w.rollbackJustOccurred]

\* ------------------------------------------------------------ sync engine
\* (specification 4.E; the session behind ggpoSession)
RingCapacity == ROLLBACK_MAX_PREDICTION_FRAMES + 1

NumRemotes(w) == w.maxPlayers - (IF w.localAdded THEN 1 ELSE 0)

\* Running and Stalled differ by whether the unconfirmed window is full
EngNormalize(w) ==
    IF w.engState \in {"Running", "Stalled"}
    THEN [w EXCEPT !.engState =
             IF w.engFrame - w.frontier >= ROLLBACK_MAX_PREDICTION_FRAMES
             THEN "Stalled" ELSE "Running"]
    ELSE w

\* ggpo_start_session and ggpo_add_player for every player
EngStart(w) ==
    [w EXCEPT !.engState = "Connecting", !.engFrame = 0, !.frontier = 0,
              !.lastRemote = 0, !.ring = {}, !.peersConnected = 0,
              !.localAdded = (w.localPlayer \in 1..w.maxPlayers)]

\* the snapshots of the set old go back through the free callback
RECURSIVE EngFree(_, _)
EngFree(w, old) ==
    IF old = {} THEN w
    ELSE Let(CHOOSE x \in old : \A y \in old : x.frame <= y.frame, LAMBDA sn :
         EngFree([FreeBuffer_Callback(w, sn.buf) EXCEPT !.ring = w.ring \ {sn}],
                 old \ {sn}))

\* ggpo_close_session: the snapshots go back through the free callback
EngClose(w) ==
    [EngFree(w, w.ring) EXCEPT !.engState = "None", !.engFrame = 0, !.frontier = 0,
                          !.lastRemote = 0, !.peersConnected = 0,
                          !.localAdded = FALSE]

\* add_local_input; a handle that was never assigned is accepted or not
\* (handleOk)
EngAddLocalInput(w, handleOk) ==
    IF w.engState = "Closed" THEN [w |-> w, ok |-> FALSE]
    ELSE IF w.localPlayerHandle = 0 /\ ~handleOk THEN [w |-> w, ok |-> FALSE]
    ELSE IF w.engFrame - w.frontier >= ROLLBACK_MAX_PREDICTION_FRAMES
    THEN [w |-> EngNormalize(w), ok |-> FALSE]
    ELSE [w |-> EngNormalize(w), ok |-> TRUE]

\* synchronize_inputs
EngSynchronizeInput(w) ==
    IF w.engState \in {"Closed", "Stalled"} THEN [w |-> w, ok |-> FALSE]
    ELSE [w |-> w, ok |-> TRUE]

\* step 4 of the rollback procedure: n calls of the advance callback
RECURSIVE EngResimulate(_, _)
EngResimulate(w, n) ==
    IF n = 0 THEN [w |-> w, ok |-> TRUE]
    ELSE Let(AdvanceFrame_Callback(w), LAMBDA a :
         IF a.ok THEN EngResimulate(a.w, n - 1) ELSE [w |-> a.w, ok |-> FALSE])

\* the newest snapshot of the ring that is not after frame f
EngSnapshotFor(w, f) ==
    CHOOSE x \in w.ring :
        x.frame <= f /\ \A y \in w.ring : y.frame <= f => y.frame <= x.frame

\* the rollback procedure for a contradicted prediction at frame f
EngRollback(w, f, mallocOk, emuLoadOk) ==
    IF \A x \in w.ring : x.frame > f
    THEN [w |-> [w EXCEPT !.engState = "Closed"], ok |-> FALSE]
    ELSE Let(EngSnapshotFor(w, f), LAMBDA sn :
         Let(LoadGameState_Callback(w, sn, mallocOk, emuLoadOk), LAMBDA l :
         IF ~l.ok THEN [w |-> [l.w EXCEPT !.engState = "Closed"], ok |-> FALSE]
         ELSE Let(EngResimulate([l.w EXCEPT !.engFrame = sn.frame],
                                w.engFrame - sn.frame), LAMBDA r :
              IF ~r.ok
              THEN [w |-> [r.w EXCEPT !.engState = "Closed"], ok |-> FALSE]
              ELSE [w |-> [r.w EXCEPT
                             !.engFrame = w.engFrame,
                             !.rb = [happened |-> TRUE, s |-> sn.frame,
                                     c |-> w.engFrame,
                                     advances |-> w.engFrame - sn.frame,
                                     emuBefore |-> w.emuFrame,
                                     emuLoaded |-> sn.emu]],
                    ok |-> TRUE])))

\* the oldest snapshot of a full ring
EngOldest(w) ==
    IF Cardinality(w.ring) >= RingCapacity
    THEN {x \in w.ring : \A y \in w.ring : x.frame <= y.frame}
    ELSE {}

\* the snapshot of the executed frame: the slot it replaces goes back through
\* the free callback first; a failed save is skipped
EngSaveFrame(w, frame, mallocOk, outcome) ==
    Let(EngFree(w, {sn \in w.ring : sn.frame = frame}), LAMBDA w1 :
    Let(EngFree(w1, EngOldest(w1)), LAMBDA w2 :
    Let(SaveGameState_Callback(w2, frame, mallocOk, outcome), LAMBDA sv :
        IF sv.ok THEN [sv.w EXCEPT !.ring = sv.w.ring \cup {sv.snap}] ELSE sv.w)))

\* a network event goes to the event callback; a connected peer is counted
EngDeliver(w, net, stats) ==
    IF net.type # "event" THEN w
    ELSE Let(OnEvent_Callback(w, net, stats), LAMBDA e :
         IF net.code = "CONNECTED_TO_PEER"
         THEN [e EXCEPT !.peersConnected = @ + 1,
                        !.engState = IF e.peersConnected + 1 >= NumRemotes(e)
                                     THEN "Running" ELSE e.engState]
         ELSE e)

\* advance_frame: drain the network, roll back on a contradicted prediction,
\* move to the next frame and save
EngAdvanceFrame(w, net, stats, mallocOk, outcome, emuLoadOk) ==
    IF w.engState = "Closed" THEN [w |-> w, ok |-> FALSE]
    ELSE IF net.type = "event" /\ net.code = "DISCONNECTED_FROM_PEER"
    THEN [w |-> [OnEvent_Callback(w, net, stats) EXCEPT !.engState = "Closed"],
          ok |-> FALSE]
    ELSE
      Let(EngDeliver(w, net, stats), LAMBDA w1 :
      Let(IF /\ net.type = "input"
             /\ net.val # w1.lastRemote
             /\ w1.frontier + 1 <= w1.engFrame
          THEN EngRollback(w1, w1.frontier + 1, mallocOk, emuLoadOk)
          ELSE [w |-> w1, ok |-> TRUE], LAMBDA r :
      IF ~r.ok THEN [w |-> r.w, ok |-> FALSE]
      ELSE Let(IF net.type = "input"
               THEN [r.w EXCEPT !.frontier = @ + net.k, !.lastRemote = net.val]
               ELSE r.w, LAMBDA w2 :
           Let(EngSaveFrame(w2, w2.engFrame, mallocOk, outcome), LAMBDA w3 :
               [w |-> EngNormalize([w3 EXCEPT !.engFrame = @ + 1]), ok |-> TRUE]))))

\* ---------------------------------------------------- RollbackNetplayImpl
\* the elements of remotePlayerHandles that the player loop of Initialize
\* hands to ggpo_add_player: "&remotePlayerHandles[i]" for every i in
\* 0..maxPlayers-1 with i + 1 # localPlayer
RemoteHandleIndices(player, numPlayers) ==
    {i \in 0..(numPlayers - 1) : i + 1 # player}

\* Initialize that keeps the instance pointer when a player cannot be added
\* or the frame delay cannot be set
Initialize_KeepsInstance(w, player, numPlayers, frameDelay, fail, handleOk) ==
    IF w.initialized THEN [w |-> w, ok |-> TRUE]
    ELSE IF w.instancePtr
    THEN [w |-> [w EXCEPT !.coreError = ErrAlreadyActive], ok |-> FALSE]
    ELSE IF fail = "start"
    THEN [w |-> [w EXCEPT !.localPlayer = player, !.maxPlayers = numPlayers,
                          !.coreError = ErrStartSession, !.instancePtr = FALSE],
          ok |-> FALSE]
    ELSE
      Let([EngStart([w EXCEPT !.instancePtr = TRUE, !.localPlayer = player,
                              !.maxPlayers = numPlayers])
              EXCEPT !.ggpoSession = TRUE,
                     !.localPlayerHandle =
                         IF player \in 1..numPlayers THEN player ELSE @],
          LAMBDA w2 :
        IF fail = "player" \/ fail = "delay" \/ (w2.localPlayerHandle = 0 /\ ~handleOk)
        THEN [w |-> [EngClose(w2) EXCEPT
                        !.coreError = IF fail = "player" THEN ErrAddPlayer
                                                         ELSE ErrFrameDelay,
                        !.ggpoSession = FALSE],
              ok |-> FALSE]
        ELSE [w |-> [w2 EXCEPT !.initialized = TRUE, !.currentFrame = 0], ok |-> TRUE])

\* Initialize.  fail names the engine call that is refused, if any; handleOk
\* is what a call gets that is handed the never-assigned localPlayerHandle
Initialize(w, player, numPlayers, frameDelay, fail, handleOk) ==
    IF w.initialized THEN [w |-> w, ok |-> TRUE]
    ELSE IF w.instancePtr
    THEN [w |-> [w EXCEPT !.coreError = ErrAlreadyActive], ok |-> FALSE]
    ELSE IF fail = "start"
    THEN [w |-> [w EXCEPT !.localPlayer = player, !.maxPlayers = numPlayers,
                          !.coreError = ErrStartSession, !.instancePtr = FALSE],
          ok |-> FALSE]
    ELSE
      Let([EngStart([w EXCEPT !.instancePtr = TRUE, !.localPlayer = player,
                              !.maxPlayers = numPlayers])
              EXCEPT !.ggpoSession = TRUE,
                     !.localPlayerHandle =
                         IF player \in 1..numPlayers THEN player ELSE @],
          LAMBDA w2 :
        IF fail = "player" \/ fail = "delay" \/ (w2.localPlayerHandle = 0 /\ ~handleOk)
        THEN [w |-> [EngClose(w2) EXCEPT
                        !.coreError = IF fail = "player" THEN ErrAddPlayer
                                                         ELSE ErrFrameDelay,
                        !.ggpoSession = FALSE,
                        !.instancePtr = FALSE],
              ok |-> FALSE]
        ELSE [w |-> [w2 EXCEPT !.initialized = TRUE, !.currentFrame = 0], ok |-> TRUE])

\* Shutdown
Shutdown(w) ==
    IF w.initialized /\ w.ggpoSession
    THEN [EngClose(w) EXCEPT !.ggpoSession = FALSE, !.initialized = FALSE,
                             !.currentFrame = 0, !.instancePtr = FALSE]
    ELSE w

\* AddLocalInput that reports success whatever the engine answers
AddLocalInput_IgnoresResult(w, handleOk) ==
    IF ~w.initialized \/ ~w.ggpoSession THEN [w |-> w, ok |-> FALSE]
    ELSE [w |-> EngAddLocalInput([w EXCEPT !.currentInputSequence = @ + 1], handleOk).w,
          ok |-> TRUE]

\* AddLocalInput
AddLocalInput(w, handleOk) ==
    IF ~w.initialized \/ ~w.ggpoSession THEN [w |-> w, ok |-> FALSE]
    ELSE EngAddLocalInput([w EXCEPT !.currentInputSequence = @ + 1], handleOk)

\* GetSynchronizedInputs
GetSynchronizedInputs(w) ==
    IF ~w.initialized \/ ~w.ggpoSession THEN [w |-> w, ok |-> FALSE]
    ELSE EngSynchronizeInput(w)

\* AdvanceFrame
AdvanceFrame(w, net, stats, mallocOk, outcome, emuLoadOk) ==
    IF ~w.initialized \/ ~w.ggpoSession THEN [w |-> w, ok |-> FALSE]
    ELSE EngAdvanceFrame(w, net, stats, mallocOk, outcome, emuLoadOk)

\* delete l_RollbackNetplay: the destructor shuts down, the fields are gone
ImplDelete(w) == [ImplConstruct(Shutdown(w)) EXCEPT !.l_RollbackNetplay = FALSE]

\* --------------------------------------------- control surface, Netplay.cpp
CoreInitRollbackNetplay(w, player, numPlayers, frameDelay, fail, handleOk) ==
    IF w.l_HasInitNetplay
    THEN [w EXCEPT !.coreError = ErrStdActive, !.ret = Ret("init", FALSE)]
    ELSE IF w.l_HasInitRollbackNetplay
    THEN [w EXCEPT !.ret = Ret("init", TRUE)]
    ELSE IF player < 1 \/ player > 4 \/ numPlayers < MinPlayers \/ numPlayers > MaxPlayersLimit
    THEN [w EXCEPT !.coreError = ErrInvalidArgument, !.ret = Ret("init", FALSE)]
    ELSE
      Let(Initialize(
              [(IF ~w.l_RollbackNetplay
                THEN [ImplConstruct(w) EXCEPT !.l_RollbackNetplay = TRUE]
                ELSE w)
                 EXCEPT !.l_RollbackLocalPlayer = player,
                        !.l_RollbackMaxPlayers = numPlayers,
                        !.callbacksSet = TRUE],
              player, numPlayers, frameDelay, fail, handleOk), LAMBDA i :
          IF ~i.ok
          THEN [ImplDelete(i.w) EXCEPT !.coreError = ErrFailedInit,
                                       !.ret = Ret("init", FALSE)]
          ELSE [i.w EXCEPT !.l_HasInitRollbackNetplay = TRUE, !.ret = Ret("init", TRUE)])

CoreHasInitRollbackNetplay(w) == w.l_HasInitRollbackNetplay

\* CoreShutdownRollbackNetplay that also forgets the stored parameters
CoreShutdownRollbackNetplay_ClearsParameters(w) ==
    [ImplDelete(Shutdown(w)) EXCEPT !.l_HasInitRollbackNetplay = FALSE,
                                    !.l_RollbackLocalPlayer = 0,
                                    !.l_RollbackMaxPlayers = 0,
                                    !.ret = Ret("shutdown", TRUE)]

CoreShutdownRollbackNetplay(w) ==
    IF ~w.l_HasInitRollbackNetplay \/ ~w.l_RollbackNetplay
    THEN [w EXCEPT !.ret = Ret("shutdown", TRUE)]
    ELSE [ImplDelete(Shutdown(w)) EXCEPT !.l_HasInitRollbackNetplay = FALSE,
                                         !.ret = Ret("shutdown", TRUE)]

CoreRollbackNetplayAddLocalInput(w, handleOk) ==
    IF ~w.l_HasInitRollbackNetplay \/ ~w.l_RollbackNetplay
    THEN [w |-> w, ok |-> FALSE]
    ELSE AddLocalInput(w, handleOk)

CoreRollbackNetplayAdvanceFrame(w, net, stats, mallocOk, outcome, emuLoadOk) ==
    IF ~w.l_HasInitRollbackNetplay \/ ~w.l_RollbackNetplay
    THEN [w |-> w, ok |-> FALSE]
    ELSE AdvanceFrame(w, net, stats, mallocOk, outcome, emuLoadOk)

CoreRollbackNetplayGetSynchronizedInputs(w) ==
    IF ~w.l_HasInitRollbackNetplay \/ ~w.l_RollbackNetplay
    THEN [w |-> w, ok |-> FALSE]
    ELSE GetSynchronizedInputs(w)

\* CoreRollbackNetplayJustOccurred
CoreRollbackNetplayJustOccurred(w) ==
    IF ~w.l_HasInitRollbackNetplay \/ ~w.l_RollbackNetplay
    THEN [w EXCEPT !.ret = Ret("justOccurred", FALSE)]
    ELSE Let(RollbackJustOccurred(w), LAMBDA r :
             [r.w EXCEPT !.ret = Ret("justOccurred", r.ok)])

\* CoreRollbackNetplayGetMetrics called with no other thread at work: the
\* out parameters receive the copy that GetMetrics returns
CoreRollbackNetplayGetMetrics(w) ==
    IF ~w.l_HasInitRollbackNetplay \/ ~w.l_RollbackNetplay
    THEN [w EXCEPT !.ret = Ret("getMetrics", FALSE)]
    ELSE [w EXCEPT !.ret = Ret("getMetrics", TRUE), !.thr.snap = w.metrics]

\* CoreInitNetplay / CoreShutdownNetplay (traditional netplay); coreOk is the
\* emulator core's answer to the netplay commands
CoreInitNetplay(w, coreOk) ==
    IF coreOk THEN [w EXCEPT !.l_HasInitNetplay = TRUE, !.ret = Ret("initNetplay", TRUE)]
    ELSE [w EXCEPT !.coreError = "CoreInitNetplay Failed",
                   !.ret = Ret("initNetplay", FALSE)]

CoreShutdownNetplay(w, coreOk) ==
    IF coreOk
    THEN [w EXCEPT !.l_HasInitNetplay = FALSE, !.ret = Ret("shutdownNetplay", TRUE)]
    ELSE [w EXCEPT !.coreError = "CoreShutdownNetplay Failed",
                   !.ret = Ret("shutdownNetplay", FALSE)]

\* ------------------------------------- start and stop, Emulation.cpp
\* CoreStopEmulation; stopOk is the core's answer to M64CMD_STOP
CoreStopEmulation(w, stopOk) ==
    IF ~stopOk
    THEN [w EXCEPT !.coreError = "CoreStopEmulation Failed", !.ret = Ret("stop", FALSE)]
    ELSE IF CoreHasInitRollbackNetplay(w)
    THEN [CoreShutdownRollbackNetplay(w) EXCEPT !.frameCallbackData = FALSE,
                                                !.ret = Ret("stop", TRUE)]
    ELSE [w EXCEPT !.ret = Ret("stop", TRUE)]

\* M64CMD_EXECUTE: the call blocks while the emulation runs (executeOk), or
\* returns an error at once; when it returns, so does CoreStartEmulation
Execute(w, executeOk) ==
    IF executeOk THEN [w EXCEPT !.emulation = "running"]
    ELSE [w EXCEPT !.coreError = "CoreStartEmulation Failed", !.ret = Ret("start", FALSE)]

\* CoreStartEmulation up to M64CMD_EXECUTE.  mode says whether an address was
\* given and Core_UseRollbackNetplay is set; romOk, coreOk, stopOk and
\* executeOk are the core's answers
CoreStartEmulation(w, mode, player, frameDelay, fail, handleOk, romOk, coreOk, stopOk, executeOk) ==
    IF ~romOk THEN [w EXCEPT !.ret = Ret("start", FALSE)]
    ELSE IF mode = "rollback"
    THEN Let(CoreInitRollbackNetplay(w, player, 2, frameDelay, fail, handleOk),
             LAMBDA i :
             IF ~i.ret.ok
             THEN [CoreStopEmulation([i EXCEPT !.coreError = ErrFailedInit], stopOk)
                      EXCEPT !.ret = Ret("start", FALSE)]
             ELSE Execute([i EXCEPT !.frameCallbackData = TRUE], executeOk))
    ELSE IF mode = "standard"
    THEN Let(CoreInitNetplay(w, coreOk), LAMBDA i :
             IF ~i.ret.ok
             THEN [CoreStopEmulation(i, stopOk) EXCEPT !.ret = Ret("start", FALSE)]
             ELSE Execute(i, executeOk))
    ELSE Execute(w, executeOk)

\* ------------------------------------------- controller input, Emulation.cpp
BTN_A == 1
BTN_B == 2
BTN_Z == 4
BTN_START == 8
BTN_DPAD_UP == 16
BTN_DPAD_DOWN == 32
BTN_DPAD_LEFT == 64
BTN_DPAD_RIGHT == 128
BTN_SHOULDER_L == 256
BTN_SHOULDER_R == 512
BTN_C_UP == 1024
BTN_C_DOWN == 2048
BTN_C_LEFT == 4096
BTN_C_RIGHT == 8192

\* the bit of the emulator's button word and the bit of ControllerInput.buttons
\* that stand for the same button, in the order of the code's if-statements
ButtonMap ==
    << <<2 ^ 0, BTN_DPAD_RIGHT>>, <<2 ^ 1, BTN_DPAD_LEFT>>, <<2 ^ 2, BTN_DPAD_DOWN>>,
       <<2 ^ 3, BTN_DPAD_UP>>, <<2 ^ 4, BTN_START>>, <<2 ^ 5, BTN_Z>>,
       <<2 ^ 6, BTN_B>>, <<2 ^ 7, BTN_A>>, <<2 ^ 8, BTN_SHOULDER_R>>,
       <<2 ^ 9, BTN_SHOULDER_L>>, <<2 ^ 10, BTN_C_RIGHT>>, <<2 ^ 11, BTN_C_LEFT>>,
       <<2 ^ 12, BTN_C_DOWN>>, <<2 ^ 13, BTN_C_UP>> >>

\* word & mask, for a mask of one bit
HasBit(word, mask) == (word \div mask) % 2 = 1

\* "if (buttons & native) input.buttons |= canonical", for the first n pairs
RECURSIVE ToCanonical(_, _)
ToCanonical(buttons, n) ==
    IF n = 0 THEN 0
    ELSE ToCanonical(buttons, n - 1)
           + (IF HasBit(buttons, ButtonMap[n][1]) THEN ButtonMap[n][2] ELSE 0)

\* "if (input.buttons & canonical) buttons |= native", for the first n pairs
RECURSIVE ToNative(_, _)
ToNative(buttons, n) ==
    IF n = 0 THEN 0
    ELSE ToNative(buttons, n - 1)
           + (IF HasBit(buttons, ButtonMap[n][2]) THEN ButtonMap[n][1] ELSE 0)

\* One player's 32 bytes of an input buffer: the 8 bytes of a ControllerInput,
\* field by field, and the 24 bytes behind it (tail; 0 when all are zero)
ZeroSlot ==
    [buttons |-> 0, stick_x |-> 0, stick_y |-> 0, trigger_r |-> 0,
     trigger_l |-> 0, reserved |-> 0, tail |-> 0]

\* what memory that nobody wrote may hold
JunkSlot ==
    [buttons |-> 2 ^ 15 + BTN_B, stick_x |-> -1, stick_y |-> 1, trigger_r |-> 1,
     trigger_l |-> 0, reserved |-> 1, tail |-> 1]
StackFills == {ZeroSlot, JunkSlot}

\* what a peer may have sent as its 32 bytes
PeerSlot ==
    [buttons |-> BTN_A + BTN_C_UP, stick_x |-> 127, stick_y |-> -128,
     trigger_r |-> 0, trigger_l |-> 0, reserved |-> 0, tail |-> 0]
SyncSlots == {ZeroSlot, PeerSlot}
\* the frames the engine may hand out: the same slot for every player, or
\* slots that differ between neighbours
SyncFrames ==
    {[i \in 0..3 |-> a] : a \in SyncSlots}
    \cup {[i \in 0..3 |-> IF i % 2 = k THEN PeerSlot ELSE ZeroSlot] : k \in {0, 1}}

\* "uint8_t inputData[ROLLBACK_INPUT_BYTES * 4];": four slots, not initialized
StackBuffer(fill) == [i \in 0..3 |-> fill]

\* a read of 8 bytes at slot k of a four-slot buffer; a slot behind the buffer
\* holds whatever lies there (beyond)
ReadSlot(buf, k, beyond) == IF k \in 0..3 THEN buf[k] ELSE beyond

\* CoreGetNetplayPlayerIndex
CoreGetNetplayPlayerIndex(w) ==
    IF w.l_RollbackLocalPlayer > 0 THEN w.l_RollbackLocalPlayer - 1 ELSE 0

\* GetControllerInputs: connected says that GetStatus is installed, succeeds
\* and reports a controller, readOk that ReadController is installed and
\* succeeds, with the button word and the stick it reports; the memcpy
\* writes sizeof(ControllerInput) = 8 bytes of the player's slot
GetControllerInputs(inputData, playerIndex, connected, readOk, buttons, x, y) ==
    [inputData EXCEPT ![playerIndex] =
        IF connected /\ readOk
        THEN [buttons |-> ToCanonical(buttons, Len(ButtonMap)),
              stick_x |-> x, stick_y |-> y,
              trigger_r |-> IF HasBit(buttons, 2 ^ 8) THEN 255 ELSE 0,
              trigger_l |-> IF HasBit(buttons, 2 ^ 9) THEN 255 ELSE 0,
              reserved |-> 0, tail |-> @.tail]
        ELSE [ZeroSlot EXCEPT !.tail = inputData[playerIndex].tail]]

\* which of the input plugin's functions are installed (m64p::Input starts
\* with every pointer null)
InputApis == [SetButtonState : BOOLEAN, SetAxisValue : BOOLEAN]

\* what the emulator's virtual controllers were given: nothing yet
NoController ==
    [setButtons |-> FALSE, buttons |-> 0, setAxis |-> FALSE, x |-> 0, y |-> 0,
     read |-> FALSE, from |-> 0]
NoControllers == [i \in 0..3 |-> NoController]

\* ApplyControllerInputs that hands the record's button bits on as they are
ApplyControllerInputs_Unmapped(written, buf, base, playerIndex, api, beyond) ==
    IF playerIndex < 0 \/ playerIndex >= 4 THEN written
    ELSE Let(ReadSlot(buf, base + playerIndex, beyond), LAMBDA input :
             [written EXCEPT ![playerIndex] =
                 [setButtons |-> api.SetButtonState,
                  buttons |-> IF api.SetButtonState THEN input.buttons ELSE 0,
                  setAxis |-> api.SetAxisValue,
                  x |-> IF api.SetAxisValue THEN input.stick_x ELSE 0,
                  y |-> IF api.SetAxisValue THEN input.stick_y ELSE 0,
                  read |-> TRUE, from |-> base + playerIndex]])

\* ApplyControllerInputs(inputData, playerIndex), inputData pointing at slot
\* base of the caller's buffer: reads the slot playerIndex slots further and
\* gives its buttons and stick to controller playerIndex + 1 through the
\* functions that are installed (written records them, with the slot they
\* were read from).  g_lastInputs, which is only ever written, is left out.
ApplyControllerInputs(written, buf, base, playerIndex, api, beyond) ==
    IF playerIndex < 0 \/ playerIndex >= 4 THEN written
    ELSE Let(ReadSlot(buf, base + playerIndex, beyond), LAMBDA input :
             [written EXCEPT ![playerIndex] =
                 [setButtons |-> api.SetButtonState,
                  buttons |-> IF api.SetButtonState
                              THEN ToNative(input.buttons, Len(ButtonMap)) ELSE 0,
                  setAxis |-> api.SetAxisValue,
                  x |-> IF api.SetAxisValue THEN input.stick_x ELSE 0,
                  y |-> IF api.SetAxisValue THEN input.stick_y ELSE 0,
                  read |-> TRUE, from |-> base + playerIndex]])

\* the frame hook's loop "for (i = 0; i < 4; i++) ApplyControllerInputs(allInputs, i)"
RECURSIVE HookApplyLoop(_, _, _, _, _)
HookApplyLoop(written, buf, i, api, beyond) ==
    IF i >= 4 THEN written
    ELSE HookApplyLoop(ApplyControllerInputs(written, buf, 0, i, api, beyond),
                       buf, i + 1, api, beyond)

\* the loop of CoreRollbackNetplayApplyInputs: "playerInput = &inputs[i *
\* ROLLBACK_INPUT_BYTES]; ApplyControllerInputs(playerInput, i)"
RECURSIVE CoreApplyLoop(_, _, _, _, _, _)
CoreApplyLoop(written, buf, i, n, api, beyond) ==
    IF i >= n THEN written
    ELSE CoreApplyLoop(ApplyControllerInputs(written, buf, i, i, api, beyond),
                       buf, i + 1, n, api, beyond)

\* what ggpo_synchronize_input leaves in the caller's buffer: maxPlayers slots
\* from the engine (frame), the rest as it was
Synchronized(w, frame, fill) ==
    [i \in 0..3 |-> IF i < w.maxPlayers THEN frame[i] ELSE fill]

\* the record of the last operation on controller input: the player index,
\* what the controller reported, the local player's slot after
\* GetControllerInputs (encoded) and the same for every other content of the
\* buffer (others), the 32 bytes the pointer given to AddLocalInput points at
\* (handed), the buffer after synchronize_input (frame) and what the virtual
\* controllers were given
NoPad ==
    [op |-> "none", ok |-> TRUE, idx |-> 0, connected |-> FALSE, buttons |-> 0,
     x |-> 0, y |-> 0, encoded |-> ZeroSlot, handed |-> ZeroSlot,
     frame |-> StackBuffer(ZeroSlot), n |-> 0, written |-> NoControllers]

\* CoreRollbackNetplayApplyInputs
CoreRollbackNetplayApplyInputs(w, frame, fill, api, beyond) ==
    IF ~w.l_HasInitRollbackNetplay \/ ~w.l_RollbackNetplay
    THEN [w EXCEPT !.ret = Ret("apply", FALSE)]
    ELSE Let(GetSynchronizedInputs(w), LAMBDA r :
         IF ~r.ok THEN [r.w EXCEPT !.ret = Ret("apply", FALSE)]
         ELSE [r.w EXCEPT
                 !.ret = Ret("apply", TRUE),
                 !.pad = [NoPad EXCEPT
                            !.op = "apply",
                            !.frame = Synchronized(w, frame, fill),
                            !.n = w.l_RollbackMaxPlayers,
                            !.written = CoreApplyLoop(NoControllers,
                                            Synchronized(w, frame, fill), 0,
                                            w.l_RollbackMaxPlayers, api, beyond)]])

\* ------------------------------------------- frame hook, Emulation.cpp
Logged(w, op, ok, ev) ==
    [w EXCEPT !.hookLog = Append(@, [op |-> op, ok |-> ok, ev |-> ev])]

\* what the network can deliver in the state w (and the run's bounds)
NetEnabled(w, net) ==
    CASE net.type = "none" -> TRUE
      [] net.type = "input" ->
            /\ w.engState \in {"Running", "Stalled"}
            /\ w.frontier + net.k <= w.engFrame + 1
      [] net.code = "CONNECTED_TO_PEER" ->
            /\ w.engState = "Connecting"
            /\ w.peersConnected < NumRemotes(w)
      [] net.code = "TIMESYNC" ->
            /\ w.engState \in {"Connecting", "Running", "Stalled"}
            /\ w.peersConnected >= 1
            /\ (net.frames_ahead > 0 => w.metrics.totalRollbacks < MaxRollbacks)
      [] OTHER ->
            /\ w.engState \in {"Connecting", "Running", "Stalled"}
            /\ w.peersConnected >= 1

\* the emulator executes one frame and enters EmulationFrameCallback at its
\* end: GetControllerInputs and the bump of g_currentInputSequence
ExecuteFrame(maxFrame) ==
    /\ pc = "idle"
    /\ l_HasInitRollbackNetplay
    /\ emuFrame < maxFrame
    /\ engFrame < maxFrame
    /\ Set([Cur EXCEPT !.emuFrame = @ + 1,
                       !.g_currentInputSequence = @ + 1,
                       !.hookLog = <<[op |-> "exec", ok |-> TRUE, ev |-> ""]>>,
                       !.rb = NoRollback,
                       !.pc = "add"])

HookAddLocalInput ==
    /\ pc = "add"
    /\ \E handleOk \in (IF localPlayerHandle = 0 THEN BOOLEAN ELSE {TRUE}) :
          Let(CoreRollbackNetplayAddLocalInput(Cur, handleOk), LAMBDA r :
              Set([Logged(r.w, "add", r.ok, "") EXCEPT !.pc = "advance",
                                                      !.ret = Ret("add", r.ok)]))

HookAdvanceFrame(nets, outcomes) ==
    /\ pc = "advance"
    /\ \E net \in {n \in nets : NetEnabled(Cur, n)}, mallocOk \in MallocOutcomes,
          outcome \in outcomes :
       \E stats \in (IF net.type = "event" THEN StatsInputs ELSE {NoStats}),
          emuLoadOk \in (IF net.type = "input" THEN BOOLEAN ELSE {TRUE}) :
          Let(CoreRollbackNetplayAdvanceFrame(Cur, net, stats, mallocOk,
                                              outcome, emuLoadOk), LAMBDA r :
              Set([Logged(r.w, "advance", r.ok, net.code) EXCEPT
                          !.pc = "sync", !.ret = Ret("advance", r.ok)]))

\* CoreRollbackNetplayGetSynchronizedInputs and, when it succeeds, the loop of
\* ApplyControllerInputs
HookSynchronize ==
    /\ pc = "sync"
    /\ Let(CoreRollbackNetplayGetSynchronizedInputs(Cur), LAMBDA r :
           Set([(IF r.ok THEN Logged(Logged(r.w, "sync", TRUE, ""), "apply", TRUE, "")
                         ELSE Logged(r.w, "sync", FALSE, "")) EXCEPT
                    !.pc = "idle", !.ret = Ret("sync", r.ok)]))

\* the hook's first steps with the bytes: GetControllerInputs into the hook's
\* buffer, then CoreRollbackNetplayAddLocalInput(inputData)
HookAddLocalInputBytes ==
    /\ pc = "add"
    /\ \E handleOk \in (IF localPlayerHandle = 0 THEN BOOLEAN ELSE {TRUE}),
          connected \in BOOLEAN, readOk \in BOOLEAN, fill \in StackFills :
       \E in \in (IF connected /\ readOk THEN ControllerReports ELSE {NoReport}) :
          Let(GetControllerInputs(StackBuffer(fill), CoreGetNetplayPlayerIndex(Cur),
                                  connected, readOk, in.buttons, in.x, in.y),
              LAMBDA inputData :
          Let(CoreRollbackNetplayAddLocalInput(Cur, handleOk), LAMBDA r :
              Set([Logged(r.w, "add", r.ok, "") EXCEPT
                     !.pc = "advance",
                     !.ret = Ret("add", r.ok),
                     !.pad = [NoPad EXCEPT
                                !.op = "encode", !.ok = r.ok,
                                !.idx = CoreGetNetplayPlayerIndex(Cur),
                                !.connected = connected /\ readOk,
                                !.buttons = in.buttons, !.x = in.x, !.y = in.y,
                                !.encoded = inputData[CoreGetNetplayPlayerIndex(Cur)],
                                !.handed = inputData[0]]])))

\* the hook's last step with the bytes: CoreRollbackNetplayGetSynchronizedInputs
\* into the hook's buffer and, when it succeeds, the loop over four controllers
HookSynchronizeBytes ==
    /\ pc = "sync"
    /\ \E frame \in SyncFrames, fill \in StackFills, api \in InputApis :
          Let(CoreRollbackNetplayGetSynchronizedInputs(Cur), LAMBDA r :
              Set([(IF r.ok THEN Logged(Logged(r.w, "sync", TRUE, ""), "apply", TRUE, "")
                            ELSE Logged(r.w, "sync", FALSE, "")) EXCEPT
                     !.pc = "idle",
                     !.ret = Ret("sync", r.ok),
                     !.pad = IF ~r.ok THEN [NoPad EXCEPT !.op = "hookApply", !.ok = FALSE]
                             ELSE [NoPad EXCEPT
                                     !.op = "hookApply",
                                     !.frame = Synchronized(Cur, frame, fill),
                                     !.n = maxPlayers,
                                     !.written = HookApplyLoop(NoControllers,
                                                     Synchronized(Cur, frame, fill),
                                                     0, api, fill)]]))

\* ------------------------------------------------------- host operations
InitRollback(players, nums, fails) ==
    \E player \in players, numPlayers \in nums, frameDelay \in FrameDelayArgs :
    \E fail \in fails,
       handleOk \in (IF player \in 1..numPlayers THEN {TRUE} ELSE BOOLEAN) :
       Set(CoreInitRollbackNetplay(Cur, player, numPlayers, frameDelay, fail, handleOk))

ShutdownRollback == Set(CoreShutdownRollbackNetplay(Cur))

\* just_rolled_back, called between two executions of the frame hook
JustOccurred ==
    /\ pc = "idle"
    /\ Set(CoreRollbackNetplayJustOccurred(Cur))

\* apply_inputs, called between two executions of the frame hook
ApplyInputs ==
    /\ pc = "idle"
    /\ \E frame \in SyncFrames, fill \in StackFills, api \in InputApis,
          beyond \in StackFills :
          Set(CoreRollbackNetplayApplyInputs(Cur, frame, fill, api, beyond))

\* the pass-through operations called by the host between two executions of
\* the frame hook, with or without a session
HostAddLocalInput ==
    /\ pc = "idle"
    /\ currentInputSequence <= IdleFrames
    /\ \E handleOk \in (IF localPlayerHandle = 0 THEN BOOLEAN ELSE {TRUE}) :
          Let(CoreRollbackNetplayAddLocalInput(Cur, handleOk), LAMBDA r :
              Set([r.w EXCEPT !.ret = Ret("add", r.ok)]))

HostAdvanceFrame ==
    /\ pc = "idle"
    /\ engFrame <= IdleFrames
    /\ Let(CoreRollbackNetplayAdvanceFrame(Cur, NoNet, NoStats, TRUE, "ok", TRUE),
           LAMBDA r : Set([r.w EXCEPT !.ret = Ret("advance", r.ok)]))

HostGetSynchronizedInputs ==
    /\ pc = "idle"
    /\ Let(CoreRollbackNetplayGetSynchronizedInputs(Cur), LAMBDA r :
           Set([r.w EXCEPT !.ret = Ret("sync", r.ok)]))

\* apply_inputs on one synchronized frame
HostApplyInputs ==
    /\ pc = "idle"
    /\ Set(CoreRollbackNetplayApplyInputs(Cur, [i \in 0..3 |-> PeerSlot], ZeroSlot,
                                          [SetButtonState |-> TRUE,
                                           SetAxisValue |-> TRUE], ZeroSlot))

GetMetrics ==
    /\ pc = "idle"
    /\ Set(CoreRollbackNetplayGetMetrics(Cur))

\* the names under which io records a callback
Callbacks == {"cb.save", "cb.load", "cb.free", "cb.advance"}

\* a callback registered with the engine is invoked while GetInstance()
\* returns nullptr; for the free callback, which returns nothing, ok says
\* whether it did anything
CallbackWithoutInstance ==
    /\ ~instancePtr
    /\ \E cb \in Callbacks, b \in {0, 1} :
          Let(CASE cb = "cb.save" -> SaveGameState_Callback(Cur, 0, TRUE, "ok")
                [] cb = "cb.load" ->
                       LoadGameState_Callback(Cur,
                           [frame |-> 0, buf |-> b, emu |-> 0, seq |-> 0], TRUE, TRUE)
                [] cb = "cb.free" ->
                       [w |-> FreeBuffer_Callback(Cur, b),
                        ok |-> FreeBuffer_Callback(Cur, b) # Cur]
                [] OTHER -> AdvanceFrame_Callback(Cur),
              LAMBDA r :
              Set([r.w EXCEPT !.io = [NoIo EXCEPT !.op = cb, !.ok = r.ok]]))

\* CoreStartEmulation is called and reaches M64CMD_EXECUTE or returns
StartEmulation ==
    /\ emulation = "off"
    /\ \E mode \in {"none", "standard", "rollback"}, player \in {1, 2},
          fail \in InitFailures, romOk \in BOOLEAN, coreOk \in BOOLEAN,
          stopOk \in BOOLEAN, executeOk \in BOOLEAN :
          Set(CoreStartEmulation(Cur, mode, player, 0, fail, TRUE, romOk, coreOk,
                                 stopOk, executeOk))

\* the emulation ends, because it was stopped or by itself: M64CMD_EXECUTE
\* returns and CoreStartEmulation after it
EmulationEnds ==
    /\ emulation = "running"
    /\ pc = "idle"
    /\ \E ok \in BOOLEAN :
          Set([Cur EXCEPT !.emulation = "off", !.ret = Ret("start", ok)])

StopEmulation ==
    /\ pc = "idle"
    /\ \E stopOk \in BOOLEAN : Set(CoreStopEmulation(Cur, stopOk))

\* a frame of the running emulation
EmulationFrame == emulation = "running" /\ ExecuteFrame(EmuFrames)

InitNetplay == \E coreOk \in BOOLEAN : Set(CoreInitNetplay(Cur, coreOk))

ShutdownNetplay == \E coreOk \in BOOLEAN : Set(CoreShutdownNetplay(Cur, coreOk))

\* ------------------------------------------- the state store's callers
\* The engine calls the state store through the callbacks registered with it:
\* save, load of a snapshot it holds, free of a pointer.
StoreSave(mallocs, outcomes) ==
    \E mallocOk \in mallocs, outcome \in outcomes :
        Let(SaveEmulatorState(Cur, 0, mallocOk, outcome), LAMBDA r :
            Set([r.w EXCEPT
                   !.held = IF r.ok THEN @ \cup {r.snap} ELSE @,
                   !.io = [NoIo EXCEPT
                             !.op = "save", !.ok = r.ok,
                             !.err = IF r.ok THEN "" ELSE r.w.coreError,
                             !.hdr = IF r.ok
                                     THEN [NoHeader EXCEPT
                                             !.frame = r.snap.frame,
                                             !.inputSequence = r.snap.seq]
                                     ELSE NoHeader,
                             !.live = Cardinality(held),
                             !.malloc = mallocOk, !.outcome = outcome,
                             !.acquired = r.ok \/ r.w.coreError # ErrPoolSave,
                             !.emuCalled = r.ok \/ r.w.coreError # ErrPoolSave]]))

StoreLoad(mallocs) ==
    \E snap \in held, mallocOk \in mallocs, emuLoadOk \in BOOLEAN :
        Let(LoadEmulatorState(Cur, snap, mallocOk, emuLoadOk), LAMBDA r :
            Set([r.w EXCEPT
                   !.io = [NoIo EXCEPT
                             !.op = "load", !.ok = r.ok,
                             !.err = IF r.ok THEN "" ELSE r.w.coreError,
                             !.hdr = [NoHeader EXCEPT
                                        !.frame = snap.frame,
                                        !.inputSequence = snap.seq],
                             !.live = Cardinality(held),
                             !.malloc = mallocOk,
                             !.outcome = IF emuLoadOk THEN "ok" ELSE "emuFail",
                             !.acquired = r.ok \/ r.w.coreError # ErrPoolLoad,
                             !.emuCalled = r.ok \/ r.w.coreError # ErrPoolLoad]]))

\* FreeEmulatorState of any pointer: a held snapshot's buffer, a buffer that
\* was released before, nullptr (0) or a pointer the pool never gave out
StoreFree ==
    \E b \in 0..(PoolMaxBuffers + 1) :
        Let(FreeEmulatorState(Cur, b), LAMBDA w :
            Set([w EXCEPT
                   !.held = {sn \in held : sn.buf # b},
                   !.io = [NoIo EXCEPT
                             !.op = "free", !.live = Cardinality(held),
                             !.buf = b,
                             !.released = (w.m_freeBuffers # m_freeBuffers),
                             !.err = IF w.coreError # coreError
                                     THEN w.coreError ELSE ""]]))

\* save, with the state the emulator writes and what the buffer held before
CodecSave ==
    /\ held = {}                \* one snapshot at a time is followed
    /\ \E p \in Payloads, bg \in Backgrounds, emuOk \in BOOLEAN :
          Let(SaveEmulatorStateBytes(Cur, 0, p, bg, TRUE, emuOk), LAMBDA r :
              Set([r.w EXCEPT
                     !.held = IF r.ok THEN @ \cup {r.env} ELSE @,
                     !.io = [NoIo EXCEPT
                               !.op = "save", !.ok = r.ok,
                               !.err = IF r.ok THEN "" ELSE r.w.coreError,
                               !.hdr = IF r.ok THEN r.env.hdr ELSE NoHeader,
                               !.len = IF r.ok THEN r.env.len ELSE 0,
                               !.payload = p,
                               !.live = Cardinality(held),
                               !.outcome = IF ~emuOk THEN "emuFail" ELSE "ok",
                               !.acquired = TRUE,
                               !.emuCalled = TRUE,
                               !.checksum = IF r.ok THEN r.env.checksum ELSE 0]]))

\* the record of a load of the buffer env, said to be len bytes long
Loaded(r, op, env, len, emuLoadOk) ==
    [r.w EXCEPT
       !.io = [NoIo EXCEPT
                 !.op = op, !.ok = r.ok,
                 !.err = IF r.ok THEN "" ELSE r.w.coreError,
                 !.hdr = env.hdr, !.len = len,
                 !.payload = env.payload,
                 !.live = Cardinality(held),
                 !.outcome = IF emuLoadOk THEN "ok" ELSE "emuFail",
                 !.acquired = r.acquired, !.emuCalled = r.emuCalled,
                 !.capacity = r.capacity, !.given = r.given,
                 !.checksum = env.checksum]]

\* load of a snapshot that a save produced, with the length the save returned
CodecLoad ==
    \E env \in held, emuLoadOk \in BOOLEAN :
        Let(LoadEmulatorStateBytes(Cur, env, env.len, TRUE, emuLoadOk), LAMBDA r :
            Set(Loaded(r, "load", env, env.len, emuLoadOk)))

\* load of any other buffer
CodecLoadBuffer ==
    \E hdr \in ForeignHeaders, data \in ForeignData, len \in ForeignLens :
        Let([buf |-> 0, hdr |-> hdr, data |-> data, len |-> len, checksum |-> 0,
             payload |-> <<>>], LAMBDA env :
        Let(LoadEmulatorStateBytes(Cur, env, len, TRUE, TRUE), LAMBDA r :
            Set(Loaded(r, "loadBuffer", env, len, TRUE))))

\* ------------------------------------------------- threads side by side
\* The members of RollbackMetrics in the order of their declaration, which is
\* the order in which a copy of the struct reads them
MetricFields ==
    <<"rollbackFrames", "totalRollbacks", "predictedFrames", "maxRollbackFrames",
      "avgRollbackFrames", "pingMs", "remoteFrameAdvantage">>

NoThr ==
    [pending |-> <<>>, target |-> MetricsReset,
     vpc |-> "idle", vidx |-> 0, snap |-> MetricsReset, seen |-> {},
     hpc |-> "idle", hop |-> 1, inOp |-> FALSE, spc |-> "idle", closing |-> FALSE,
     freed |-> FALSE, useAfterFree |-> FALSE, overlap |-> FALSE]

\* one assignment of OnEvent_Callback or UpdateMetrics
Store(f, op, n) == [f |-> f, op |-> op, n |-> n]

\* the assignments that OnEvent_Callback makes for the event ev, in the order
\* of the code: RollbackMetrics::Reset or the frame advantage, the network
\* stats, then the rollback signal
EventStores(ev, stats) ==
    (CASE ev.code \in {"CONNECTED_TO_PEER", "DISCONNECTED_FROM_PEER"} ->
              <<Store("rollbackFrames", "set", 0), Store("totalRollbacks", "set", 0),
                Store("predictedFrames", "set", 0), Store("maxRollbackFrames", "set", 0),
                Store("avgRollbackFrames", "set", [n |-> 0, d |-> 1]),
                Store("pingMs", "set", 0), Store("remoteFrameAdvantage", "set", 0)>>
       [] ev.code = "TIMESYNC" ->
              <<Store("remoteFrameAdvantage", "set", ev.frames_ahead)>>
       [] OTHER -> <<>>)
    \o (IF stats.ok
        THEN <<Store("pingMs", "set", stats.ping),
               Store("predictedFrames", "set", stats.behind)>>
        ELSE <<>>)
    \o (IF ev.code = "TIMESYNC" /\ ev.frames_ahead > 0
        THEN <<Store("flag", "set", TRUE),
               Store("rollbackFrames", "add", ev.frames_ahead),
               Store("totalRollbacks", "add", 1),
               Store("maxRollbackFrames", "max", ev.frames_ahead),
               Store("avgRollbackFrames", "avg", 0)>>
        ELSE <<>>)

\* the metrics after the assignment st
ApplyStore(m, st) ==
    CASE st.f = "flag" -> m
      [] st.op = "set" -> [m EXCEPT ![st.f] = st.n]
      [] st.op = "add" -> [m EXCEPT ![st.f] = @ + st.n]
      [] st.op = "max" -> [m EXCEPT ![st.f] = Max2(@, st.n)]
      [] OTHER -> [m EXCEPT ![st.f] = [n |-> m.rollbackFrames, d |-> m.totalRollbacks]]

\* the members that a copy under way has read are those of m
Agrees(m, snap, vidx) ==
    \A i \in 1..vidx : m[MetricFields[i]] = snap[MetricFields[i]]

\* the engine thread enters OnEvent_Callback with an event of the drain
EventBegin ==
    /\ l_HasInitRollbackNetplay
    /\ instancePtr
    /\ thr.pending = <<>>
    /\ \E ev \in ViewerEvents, stats \in StatsInputs \ {NoStats} :
          /\ ev.frames_ahead > 0 => metrics.totalRollbacks < MaxRollbacks
          /\ EventStores(ev, stats) # <<>>
          /\ Set([Cur EXCEPT !.thr.pending = EventStores(ev, stats),
                              !.thr.target = OnEvent_Callback(Cur, ev, stats).metrics])

\* the engine thread makes the callback's next assignment; a copy that is
\* under way has then met one more value of the metrics (seen holds the
\* values met that the copy may still turn out to be)
EventStore ==
    /\ thr.pending # <<>>
    /\ Let(ApplyStore(metrics, Head(thr.pending)), LAMBDA m :
           Set([Cur EXCEPT
                  !.metrics = m,
                  !.rollbackJustOccurred = @ \/ Head(thr.pending).f = "flag",
                  !.thr.pending = Tail(@),
                  !.thr.seen = IF thr.vpc = "copy" /\ Agrees(m, thr.snap, thr.vidx)
                               THEN @ \cup {m} ELSE @]))

\* CoreRollbackNetplayGetMetrics on the viewer's thread: the check, then the
\* copy that GetMetrics returns, member by member
ViewerBegin ==
    /\ thr.vpc = "idle"
    /\ l_HasInitRollbackNetplay
    /\ l_RollbackNetplay
    /\ Set([Cur EXCEPT !.thr.vpc = "copy", !.thr.vidx = 0,
                        !.thr.snap = MetricsReset, !.thr.seen = {metrics}])

ViewerRead ==
    /\ thr.vpc = "copy"
    /\ Let(MetricFields[thr.vidx + 1], LAMBDA f :
           Set([Cur EXCEPT
                  !.thr.snap = [@ EXCEPT ![f] = metrics[f]],
                  !.thr.seen = {m \in @ : Agrees(m, [thr.snap EXCEPT ![f] = metrics[f]],
                                                 thr.vidx + 1)},
                  !.thr.vidx = @ + 1,
                  !.thr.vpc = IF thr.vidx + 1 = Len(MetricFields) THEN "done" ELSE "copy",
                  !.ret = IF thr.vidx + 1 = Len(MetricFields)
                          THEN Ret("getMetrics", TRUE) ELSE @]))

\* The frame hook on the emulator's thread, call by call.  Each pass-through
\* operation first checks l_HasInitRollbackNetplay and l_RollbackNetplay
\* (check), then calls the session object through the pointer (call) and
\* returns when the session's operation has run (run).
HookOps == <<"add", "advance", "sync">>

\* the position after the operation number i has returned
HookAfter(i) == IF i = Len(HookOps) THEN "idle" ELSE "check"

\* "if (CoreHasInitRollbackNetplay())" at the head of EmulationFrameCallback
ThreadHookEnter ==
    /\ thr.hpc = "idle"
    /\ l_HasInitRollbackNetplay
    /\ engFrame < StopFrames
    /\ Set([Cur EXCEPT !.thr.hpc = "check", !.thr.hop = 1])

\* the check of a pass-through operation; when it fails the operation
\* returns false and the hook goes on
ThreadHookCheck ==
    /\ thr.hpc = "check"
    /\ Set([Cur EXCEPT
               !.thr.hpc = IF l_HasInitRollbackNetplay /\ l_RollbackNetplay
                           THEN "call" ELSE HookAfter(thr.hop),
               !.thr.hop = IF (l_HasInitRollbackNetplay /\ l_RollbackNetplay)
                               \/ thr.hop = Len(HookOps)
                           THEN @ ELSE @ + 1])

\* the call through l_RollbackNetplay: the session's operation begins, on an
\* object that may have been deleted since the check
ThreadHookCall ==
    /\ thr.hpc = "call"
    /\ Set([Cur EXCEPT
               !.thr.hpc = "run",
               !.thr.inOp = TRUE,
               !.thr.useAfterFree = @ \/ thr.freed,
               !.thr.overlap = @ \/ thr.closing])

\* the session's operation runs and returns
ThreadHookRun ==
    /\ thr.hpc = "run"
    /\ \E handleOk \in (IF localPlayerHandle = 0 THEN BOOLEAN ELSE {TRUE}) :
          Let(CASE HookOps[thr.hop] = "add" -> AddLocalInput(Cur, handleOk)
                [] HookOps[thr.hop] = "advance" ->
                       AdvanceFrame(Cur, NoNet, NoStats, TRUE, "ok", TRUE)
                [] OTHER -> GetSynchronizedInputs(Cur),
              LAMBDA r :
              Set([(IF thr.freed THEN Cur ELSE r.w) EXCEPT
                     !.thr.hpc = HookAfter(thr.hop),
                     !.thr.hop = IF thr.hop = Len(HookOps) THEN @ ELSE @ + 1,
                     !.thr.inOp = FALSE,
                     !.thr.useAfterFree = @ \/ thr.freed]))

\* CoreStopEmulation on the host's thread: M64CMD_STOP asks the emulator to
\* stop and returns; then, with a session, CoreShutdownRollbackNetplay and
\* its check
ThreadStopBegin ==
    /\ thr.spc \in {"idle", "done"}
    /\ l_HasInitRollbackNetplay
    /\ Set([Cur EXCEPT !.thr.spc = IF l_RollbackNetplay THEN "shutdown" ELSE "done"])

\* l_RollbackNetplay->Shutdown() begins to close the session
ThreadStopShutdown ==
    /\ thr.spc = "shutdown"
    /\ Set([Cur EXCEPT !.thr.spc = "closing",
                        !.thr.closing = TRUE,
                        !.thr.overlap = @ \/ thr.inOp])

\* Shutdown has closed the session and returns
ThreadStopClosed ==
    /\ thr.spc = "closing"
    /\ Set([Shutdown(Cur) EXCEPT !.thr.spc = "delete", !.thr.closing = FALSE])

\* delete l_RollbackNetplay: the object is gone, the pointer still holds its
\* address
ThreadStopDelete ==
    /\ thr.spc = "delete"
    /\ Set([ImplConstruct(Shutdown(Cur)) EXCEPT
               !.thr.spc = "null",
               !.thr.freed = TRUE,
               !.thr.useAfterFree = @ \/ thr.inOp])

\* l_RollbackNetplay = nullptr
ThreadStopNull ==
    /\ thr.spc = "null"
    /\ Set([Cur EXCEPT !.l_RollbackNetplay = FALSE, !.thr.spc = "flag"])

\* l_HasInitRollbackNetplay = false; the hook's calls that are still under
\* way keep the address they read
ThreadStopFlag ==
    /\ thr.spc = "flag"
    /\ Set([Cur EXCEPT !.l_HasInitRollbackNetplay = FALSE,
                        !.ret = Ret("shutdown", TRUE),
                        !.thr.spc = "done",
                        !.thr.freed = thr.hpc \in {"call", "run"}])

\* CoreStartEmulation starts a session when none is active and no thread is
\* inside the one before
ThreadStart ==
    /\ ~l_HasInitRollbackNetplay
    /\ thr.hpc = "idle"
    /\ thr.spc \in {"idle", "done"}
    /\ Set([CoreInitRollbackNetplay(Cur, 1, 2, 0, "none", TRUE) EXCEPT
               !.thr = [NoThr EXCEPT !.useAfterFree = thr.useAfterFree,
                                     !.overlap = thr.overlap]])

\* ------------------------------------------------------------------ spec
Init ==
    /\ l_HasInitNetplay = FALSE
    /\ l_HasInitRollbackNetplay = FALSE
    /\ l_RollbackNetplay = FALSE
    /\ l_RollbackLocalPlayer = 0
    /\ l_RollbackMaxPlayers = 0
    /\ instancePtr = FALSE
    /\ ggpoSession = FALSE
    /\ localPlayer = 0
    /\ maxPlayers = 0
    /\ initialized = FALSE
    /\ currentFrame = 0
    /\ currentInputSequence = 0
    /\ lastSavedFrameInputSequence = 0
    /\ localPlayerHandle = 0
    /\ callbacksSet = FALSE
    /\ rollbackJustOccurred = FALSE
    /\ metrics = MetricsReset
    /\ g_currentInputSequence = 0
    /\ m_freeBuffers = <<1>>
    /\ m_usedBuffers = <<>>
    /\ coreError = ErrNone
    /\ engState = "None"
    /\ engFrame = 0
    /\ frontier = 0
    /\ lastRemote = 0
    /\ ring = {}
    /\ peersConnected = 0
    /\ localAdded = FALSE
    /\ emuFrame = 0
    /\ pc = "idle"
    /\ hookLog = <<>>
    /\ ret = Ret("none", TRUE)
    /\ rb = NoRollback
    /\ held = {}
    /\ io = NoIo
    /\ pad = NoPad
    /\ thr = NoThr
    /\ frameCallbackData = FALSE
    /\ emulation = "off"

\* a two-player session played for MaxFrame frames over a network that
\* delivers every event and remote input
Next ==
    \/ InitRollback({1}, {2}, {"none"})
    \/ ShutdownRollback
    \/ ExecuteFrame(MaxFrame)
    \/ HookAddLocalInput
    \/ HookAdvanceFrame(NetInputs, SaveOutcomes)
    \/ HookSynchronize

Spec == Init /\ [][Next]_vars

\* the control surface with every argument and every refusal, and both netplay
\* modes, over CtlFrames frames
NextCtl ==
    \/ InitRollback(PlayerArgs, MaxPlayersArgs, InitFailures)
    \/ ShutdownRollback
    \/ InitNetplay
    \/ ShutdownNetplay
    \/ ExecuteFrame(CtlFrames)
    \/ HookAddLocalInput
    \/ HookAdvanceFrame(CtlNetInputs, {"ok"})
    \/ HookSynchronize

SpecCtl == Init /\ [][NextCtl]_vars

\* a two-player session whose peer falls behind, over StallFrames frames
NextStall ==
    \/ InitRollback({1}, {2}, {"none"})
    \/ ExecuteFrame(StallFrames)
    \/ HookAddLocalInput
    \/ HookAdvanceFrame(StallNetInputs, {"ok"})
    \/ HookSynchronize

SpecStall == Init /\ [][NextStall]_vars

\* the state store and its pool under any sequence of saves, loads and frees,
\* allocation failures included
NextPool ==
    \/ StoreSave(BOOLEAN, SaveOutcomes)
    \/ StoreLoad(BOOLEAN)
    \/ StoreFree

SpecPool == Init /\ [][NextPool]_vars

\* the state store with the bytes of the states it saves and loads
NextCodec ==
    \/ CodecSave
    \/ CodecLoad
    \/ CodecLoadBuffer
    \/ StoreFree

SpecCodec == Init /\ [][NextCodec]_vars

\* sessions of every local player, with the bytes of the controller input
NextInput ==
    \/ InitRollback(InputPlayers, InputCounts, {"none"})
    \/ ExecuteFrame(InputFrames)
    \/ HookAddLocalInputBytes
    \/ HookAdvanceFrame({NoNet}, {"ok"})
    \/ HookSynchronizeBytes
    \/ ApplyInputs

SpecInput == Init /\ [][NextInput]_vars

\* two-player sessions whose network delivers events only, with a host that
\* asks whether a rollback has just occurred
NextSignal ==
    \/ InitRollback({1}, {2}, {"none"})
    \/ ShutdownRollback
    \/ ExecuteFrame(SignalFrames)
    \/ HookAddLocalInput
    \/ HookAdvanceFrame(SignalNetInputs, {"ok"})
    \/ HookSynchronize
    \/ JustOccurred

SpecSignal == Init /\ [][NextSignal]_vars

\* a session whose engine thread handles events while a viewer's thread
\* reads the metrics
NextViewer ==
    \/ InitRollback({1}, {2}, {"none"})
    \/ EventBegin
    \/ EventStore
    \/ ViewerBegin
    \/ ViewerRead

SpecViewer == Init /\ [][NextViewer]_vars

\* the state store called between two executions of the frame hook; one
\* snapshot is followed
SeqSave == pc = "idle" /\ held = {} /\ StoreSave({TRUE}, SaveOutcomes)

SeqLoad == pc = "idle" /\ StoreLoad(BOOLEAN)

\* a session whose frame hook runs SeqFrames times while the state store
\* saves a snapshot and loads it
NextSeq ==
    \/ InitRollback({1}, {2}, {"none"})
    \/ ExecuteFrame(SeqFrames)
    \/ HookAddLocalInput
    \/ HookAdvanceFrame({NoNet}, {"ok"})
    \/ HookSynchronize
    \/ SeqSave
    \/ SeqLoad

SpecSeq == Init /\ [][NextSeq]_vars

\* emulations started and stopped by the host, with and without netplay
NextEmu ==
    \/ StartEmulation
    \/ EmulationEnds
    \/ StopEmulation
    \/ EmulationFrame
    \/ HookAddLocalInput
    \/ HookAdvanceFrame({NoNet}, {"ok"})
    \/ HookSynchronize

SpecEmu == Init /\ [][NextEmu]_vars

\* sessions that start, fail to start and end, with every operation of the
\* control surface called by the host at any time in between
NextIdle ==
    \/ InitRollback({1}, {2}, InitFailures)
    \/ ShutdownRollback
    \/ ExecuteFrame(IdleFrames)
    \/ HookAddLocalInput
    \/ HookAdvanceFrame({NoNet}, {"ok"})
    \/ HookSynchronize
    \/ HostAddLocalInput
    \/ HostAdvanceFrame
    \/ HostGetSynchronizedInputs
    \/ HostApplyInputs
    \/ GetMetrics
    \/ JustOccurred
    \/ CallbackWithoutInstance

SpecIdle == Init /\ [][NextIdle]_vars

\* a session whose frame hook runs on the emulator's thread while the host's
\* thread stops the emulation
NextStop ==
    \/ ThreadStart
    \/ ThreadHookEnter
    \/ ThreadHookCheck
    \/ ThreadHookCall
    \/ ThreadHookRun
    \/ ThreadStopBegin
    \/ ThreadStopShutdown
    \/ ThreadStopClosed
    \/ ThreadStopDelete
    \/ ThreadStopNull
    \/ ThreadStopFlag

SpecStop == Init /\ [][NextStop]_vars

\* ------------------------------------------------------------------ claims
LastLog == hookLog[Len(hookLog)]

\* everything that makes up the session: the control surface's statics, the
\* session object, the instance pointer and the engine behind it
SessionVars ==
    <<l_HasInitRollbackNetplay, l_RollbackNetplay, l_RollbackLocalPlayer,
      l_RollbackMaxPlayers, instancePtr, ggpoSession, localPlayer, maxPlayers,
      initialized, currentFrame, currentInputSequence, lastSavedFrameInputSequence,
      localPlayerHandle, callbacksSet, rollbackJustOccurred, metrics,
      engState, engFrame, frontier, lastRemote, ring, peersConnected, localAdded>>

\* C1: while a rollback session is active, a further init fails with the
\* "already active" error and leaves the session, its parameters and the
\* instance pointer unchanged.
C1_SecondInitFails ==
    [][(l_HasInitRollbackNetplay /\ ret'.op = "init")
          => (/\ ~ret'.ok
              /\ coreError' = ErrAlreadyActive
              /\ UNCHANGED SessionVars)]_vars

\* C2: in a frame-hook execution no advance_frame is called between
\* add_local_input and the synchronize_inputs of the same frame.
C2_NoAdvanceBetweenAddAndSync ==
    \A i, j \in DOMAIN hookLog :
        (i < j /\ hookLog[i].op = "add" /\ hookLog[j].op = "advance")
            => \E k \in DOMAIN hookLog : i < k /\ k < j /\ hookLog[k].op = "sync"

\* C3: a rollback that loads the snapshot of frame s at frame c makes c - s
\* advance callbacks, each executing one emulator frame, so that after the
\* rollback the emulator is where it was before it.
C3_ResimulationRestoresEmulator ==
    rb.happened =>
        /\ rb.advances = rb.c - rb.s
        /\ emuFrame - rb.emuLoaded = rb.advances
        /\ emuFrame = rb.emuBefore

\* C4: an advance_frame without rollback adds exactly 1 to the session's
\* currentFrame, and an advance_frame with a rollback leaves it, once the
\* rollback is complete, at its value before the rollback.
C4_CurrentFrameTracksAdvance ==
    [][(pc = "advance" /\ pc' = "sync" /\ ret'.ok)
          => IF rb'.happened THEN currentFrame' = currentFrame
                             ELSE currentFrame' = currentFrame + 1]_vars

\* C5: a rollback of d re-simulated frames adds 1 to totalRollbacks and d to
\* rollbackFrames, raises maxRollbackFrames to at least d and sets
\* rollbackJustOccurred.
C5_RollbackIsCounted ==
    [][(pc = "advance" /\ pc' = "sync" /\ rb'.happened)
          => (/\ metrics'.totalRollbacks = metrics.totalRollbacks + 1
              /\ metrics'.rollbackFrames = metrics.rollbackFrames + rb'.advances
              /\ metrics'.maxRollbackFrames = Max2(metrics.maxRollbackFrames, rb'.advances)
              /\ rollbackJustOccurred')]_vars

CountersNonDecreasing ==
    /\ metrics'.totalRollbacks >= metrics.totalRollbacks
    /\ metrics'.rollbackFrames >= metrics.rollbackFrames
    /\ metrics'.maxRollbackFrames >= metrics.maxRollbackFrames

\* C6 as stated: within one session totalRollbacks, rollbackFrames and
\* maxRollbackFrames never decrease.
C6_CountersNeverDecrease ==
    [][(initialized /\ initialized') => CountersNonDecreasing]_vars

\* C6 amended: within one session the three counters never decrease, except
\* that processing a connected-to-peer or disconnected-from-peer event resets
\* all three to zero.
C6_CountersDecreaseOnlyByReset ==
    [][(initialized /\ initialized')
          => \/ CountersNonDecreasing
             \/ /\ pc = "advance" /\ pc' = "sync"
                /\ LastLog'.ev \in {"CONNECTED_TO_PEER", "DISCONNECTED_FROM_PEER"}
                /\ metrics'.totalRollbacks = 0
                /\ metrics'.rollbackFrames = 0
                /\ metrics'.maxRollbackFrames = 0]_vars

\* the counters have grown over several events, the last one below the maximum
C6_Witness ==
    /\ initialized
    /\ metrics.totalRollbacks = 2
    /\ metrics.rollbackFrames = 3
    /\ metrics.maxRollbackFrames = 2
    /\ metrics.remoteFrameAdvantage = 1

\* C7: when add_local_input fails because the unconfirmed window is full, the
\* hook neither calls advance_frame nor writes synchronized input to the
\* controllers in that execution.
C7_FailedAddStallsFrame ==
    \A i, j \in DOMAIN hookLog :
        (i < j /\ hookLog[i].op = "add" /\ ~hookLog[i].ok)
            => hookLog[j].op \notin {"advance", "apply"}

\* C8: in a running session the head is never more than
\* ROLLBACK_MAX_PREDICTION_FRAMES ahead of the confirmation frontier.
C8_PredictionBound ==
    (initialized /\ engState \in {"Running", "Stalled"})
        => engFrame - frontier <= ROLLBACK_MAX_PREDICTION_FRAMES

C10_InitArgumentsValidated ==
    /\ initialized =>
          /\ maxPlayers \in MinPlayers..MaxPlayersLimit
          /\ localPlayer \in 1..maxPlayers
          /\ localAdded
    /\ l_RollbackMaxPlayers # 0 =>
          /\ l_RollbackMaxPlayers \in MinPlayers..MaxPlayersLimit
          /\ l_RollbackLocalPlayer \in 1..l_RollbackMaxPlayers

\* every variable but the record of the last call's return
AllButRet ==
    <<l_HasInitNetplay, l_HasInitRollbackNetplay, l_RollbackNetplay,
      l_RollbackLocalPlayer, l_RollbackMaxPlayers, instancePtr, ggpoSession,
      localPlayer, maxPlayers, initialized, currentFrame, currentInputSequence,
      lastSavedFrameInputSequence, localPlayerHandle, callbacksSet,
      rollbackJustOccurred, metrics, g_currentInputSequence, m_freeBuffers,
      m_usedBuffers, coreError, engState, engFrame, frontier, lastRemote, ring,
      peersConnected, localAdded, emuFrame, pc, hookLog, rb, held, io, pad, thr,
      frameCallbackData, emulation>>

\* C11: a shutdown called when no session is active (a second shutdown, or a
\* shutdown before any init) reports success and changes no state.
C11_ShutdownIdempotent ==
    [][(~l_HasInitRollbackNetplay /\ ret'.op = "shutdown")
          => (ret'.ok /\ UNCHANGED AllButRet)]_vars

\* a shutdown has returned with no session active, after an init that stored
\* its parameters and after frames were played
C11_Witness ==
    /\ ret.op = "shutdown"
    /\ ret.ok
    /\ ~l_HasInitRollbackNetplay
    /\ ~l_RollbackNetplay
    /\ l_RollbackMaxPlayers # 0
    /\ emuFrame > 0

LoadFailureKinds == {ErrBadMagic, ErrVersion, ErrTruncated, ErrDecompress, ErrEmuLoad}

\* C15: a load fails only with one of the five kinds, and the load of a
\* well-formed snapshot that the emulator accepts succeeds in every pool
\* state, also when the other pool buffers are held by live snapshots.
C15_LoadFailureKinds ==
    (io.op = "load" /\ io.malloc)
        => /\ io.ok \/ io.err \in LoadFailureKinds
           /\ io.outcome = "ok" => io.ok

\* C18: a save made while fewer than MAX_PREDICTION + 1 snapshots are live
\* succeeds (when allocation, emulator and compressor do).
C18_RingCapacity ==
    (io.op = "save" /\ io.live < RingCapacity /\ io.malloc /\ io.outcome = "ok")
        => io.ok

PoolOwned == Len(m_freeBuffers) + Len(m_usedBuffers)

PoolWellFormed ==
    /\ PoolOwned <= PoolMaxBuffers
    /\ Cardinality(SeqToSet(m_freeBuffers \o m_usedBuffers)) = PoolOwned

C20_SinglePoolBufferExhausted ==
    (io.op = "save" /\ io.live >= 1)
        => (~io.ok /\ io.err = ErrPoolSave)

\* C13: every state the emulator produces is saved, and the load of the
\* saved snapshot hands the emulator exactly that state, the checksum the
\* save returned being the checksum of that state.
C13_SnapshotRoundTrip ==
    /\ (io.op = "save" /\ io.outcome = "ok") => io.ok
    /\ (io.op = "load" /\ io.ok) =>
          /\ io.given = io.payload
          /\ io.checksum = CalculateChecksum(io.payload)

\* a load step that is refused with the error kind and touches nothing: no
\* pool buffer, no emulator call, no variable but the error sink and the record
RejectedAs(kind) ==
    /\ ~io'.ok
    /\ io'.err = kind
    /\ ~io'.acquired
    /\ ~io'.emuCalled
    /\ UNCHANGED <<SessionVars, g_currentInputSequence, m_freeBuffers,
                   m_usedBuffers, held, emuFrame>>

C16_TruncationCheck ==
    (io.op \in {"load", "loadBuffer"} /\ HeaderSize + io.hdr.compressedSize > io.len)
        => (~io.ok /\ ~io.acquired /\ ~io.emuCalled)

\* C17: the inflater is never given a capacity greater than the size of the
\* pool buffer it writes into.
C17_InflateWithinBuffer ==
    io.op \in {"load", "loadBuffer"} => io.capacity <= BufferSize

\* C21: the release of a buffer that the step before released (it was not
\* handed out in between) is reported as an error, and no buffer is ever
\* twice in the free list.
C21_DoubleReleaseDetected ==
    [][/\ Cardinality(SeqToSet(m_freeBuffers')) = Len(m_freeBuffers')
       /\ (io.op = "free" /\ io.released /\ io'.op = "free" /\ io'.buf = io.buf)
             => io'.err # ""]_vars

\* C22: the checksum a save returns is that of any other save of the same
\* emulator state, whatever its frame number, the input sequence, the pool
\* buffer it gets and the bytes that buffer held before.
C22_ChecksumOfPayloadOnly ==
    (io.op = "save" /\ io.ok) =>
        \A frame \in {0, 1}, seq \in {0, 1}, bg \in Backgrounds :
            Let(SaveEmulatorStateBytes([Cur EXCEPT !.g_currentInputSequence = seq],
                                       frame, io.payload, bg, TRUE, TRUE),
                LAMBDA r : r.ok => r.env.checksum = io.checksum)

\* C23: the 32 bytes that GetControllerInputs leaves for the local player are
\* a function of the controller's state alone, with zeros behind the fields,
\* and all zero for a controller that is not connected.
C23_EncodingPure ==
    pad.op = "encode" =>
        /\ pad.encoded.reserved = 0
        /\ pad.encoded.tail = 0
        /\ ~pad.connected => pad.encoded = ZeroSlot
        /\ \A fill \in StackFills :
              GetControllerInputs(StackBuffer(fill), pad.idx, pad.connected, TRUE,
                                  pad.buttons, pad.x, pad.y)[pad.idx] = pad.encoded

\* the local player's slot with the encoded record, in a buffer of zeros
EncodedBuffer == [StackBuffer(ZeroSlot) EXCEPT ![pad.idx] = pad.encoded]

\* C24: what ApplyControllerInputs gives the emulator for the encoding of
\* (b, x, y) is b & 0x3FFF, x and y; the encoding has no bit above the 14
\* defined ones, and is that of any button word with the same 14 bits.
C24_ControllerRoundTrip ==
    (pad.op = "encode" /\ pad.connected) =>
        /\ \A api \in InputApis :
              Let(ApplyControllerInputs(NoControllers, EncodedBuffer, 0, pad.idx,
                                        api, JunkSlot)[pad.idx],
                  LAMBDA c : /\ c.setButtons => c.buttons = pad.buttons % (2 ^ 14)
                             /\ c.setAxis => (c.x = pad.x /\ c.y = pad.y)
                             /\ c.setButtons = api.SetButtonState
                             /\ c.setAxis = api.SetAxisValue)
        /\ pad.encoded.buttons < 2 ^ 14
        /\ \A b \in NativeWords :
              b % (2 ^ 14) = pad.buttons % (2 ^ 14) =>
                 GetControllerInputs(EncodedBuffer, pad.idx, TRUE, TRUE, b,
                                     pad.x, pad.y)[pad.idx] = pad.encoded

\* player 4 has encoded a button word with all bits set
C24_Witness ==
    /\ pad.op = "encode"
    /\ pad.connected
    /\ pad.idx = 3
    /\ pad.buttons = 2 ^ 16 - 1
    /\ pad.encoded.buttons = 2 ^ 14 - 1

\* C25: the 32 bytes that the frame hook hands to AddLocalInput are the local
\* player's record that GetControllerInputs produced in the same execution.
C25_LocalInputSubmitted ==
    pad.op = "encode" => pad.handed = pad.encoded

\* C26: after a successful apply_inputs, controller i was given what slot i
\* of the synchronized frame holds, for every player i of the session, and
\* nothing was read outside the buffer's four slots.
C26_ApplyInputsMapping ==
    (pad.op = "apply" /\ ret.ok) =>
        \A i \in 0..(pad.n - 1) :
            /\ pad.written[i].read
            /\ pad.written[i].from = i
            /\ pad.written[i].from \in 0..3
            /\ pad.written[i].setButtons =>
                  pad.written[i].buttons = ToNative(pad.frame[i].buttons, Len(ButtonMap))
            /\ pad.written[i].setAxis =>
                  /\ pad.written[i].x = pad.frame[i].stick_x
                  /\ pad.written[i].y = pad.frame[i].stick_y

\* the four things a rollback signal touches
SignalVars ==
    <<metrics.totalRollbacks, metrics.rollbackFrames, metrics.maxRollbackFrames,
      rollbackJustOccurred>>

\* a step of the hook in which the engine hands a timesync event to the
\* event callback
TimesyncProcessed ==
    /\ pc = "advance"
    /\ pc' = "sync"
    /\ LastLog'.ev = "TIMESYNC"

\* C29: a timesync event with frames_ahead = n > 0 adds 1 to totalRollbacks
\* and n to rollbackFrames, raises maxRollbackFrames to max(old, n), sets
\* avgRollbackFrames to rollbackFrames / totalRollbacks and sets
\* rollbackJustOccurred; one with n <= 0 changes none of the first three nor
\* the flag.  (n is what the event leaves in remoteFrameAdvantage.)
C29_TimesyncAsRollbackSignal ==
    [][TimesyncProcessed =>
          IF metrics'.remoteFrameAdvantage > 0
          THEN /\ metrics'.totalRollbacks = metrics.totalRollbacks + 1
               /\ metrics'.rollbackFrames =
                     metrics.rollbackFrames + metrics'.remoteFrameAdvantage
               /\ metrics'.maxRollbackFrames =
                     Max2(metrics.maxRollbackFrames, metrics'.remoteFrameAdvantage)
               /\ metrics'.avgRollbackFrames =
                     [n |-> metrics'.rollbackFrames, d |-> metrics'.totalRollbacks]
               /\ rollbackJustOccurred'
          ELSE UNCHANGED SignalVars]_vars

\* two signals were counted, the second smaller than the first, and a hint
\* of -1 frames has been processed since
C29_Witness ==
    /\ pc = "sync"
    /\ LastLog.ev = "TIMESYNC"
    /\ metrics.remoteFrameAdvantage = -1
    /\ metrics.totalRollbacks = 2
    /\ metrics.rollbackFrames = 3
    /\ metrics.maxRollbackFrames = 2
    /\ rollbackJustOccurred

\* a step that is the call op of the control surface (the steps of the frame
\* hook move pc, the calls of the host do not)
HostCall(op) == pc' = pc /\ ret'.op = op

\* C30: just_rolled_back returns the flag and clears it, and returns false
\* without a session; the flag is clear in a new session, is set by a step
\* that processes a rollback signal and changes in no other step of a
\* session.  Hence a call returns true exactly if a signal was recorded since
\* the call before (or since the session was created).
C30_JustRolledBackReadAndClear ==
    [][/\ HostCall("justOccurred") =>
             /\ ret'.ok = (l_HasInitRollbackNetplay /\ rollbackJustOccurred)
             /\ ~rollbackJustOccurred'
       /\ HostCall("init") =>
             IF l_HasInitRollbackNetplay THEN UNCHANGED rollbackJustOccurred
             ELSE ~rollbackJustOccurred'
       /\ pc' # pc =>
             rollbackJustOccurred' =
                (rollbackJustOccurred
                   \/ (TimesyncProcessed /\ metrics'.remoteFrameAdvantage > 0))]_vars

\* a call has returned true in a session's third frame and cleared the flag
C30_Witness ==
    /\ ret = Ret("justOccurred", TRUE)
    /\ ~rollbackJustOccurred
    /\ metrics.totalRollbacks >= 1
    /\ emuFrame = 3

\* the assignments of an event, made one after the other, add up to what
\* OnEvent_Callback does
StoresMakeCallback ==
    (l_HasInitRollbackNetplay /\ thr.pending = <<>>) => metrics = thr.target

\* C27: the metrics that get_metrics returns on the viewer's thread are the
\* metrics as they were at one moment between the call and the return, the
\* moments between two assignments of an update included.
C27_MetricsSnapshotConsistent ==
    thr.vpc = "done" => thr.snap \in thr.seen

\* C28: no operation of the session runs while Shutdown runs, and the
\* frame hook never calls through the pointer to a session object that
\* CoreShutdownRollbackNetplay has deleted.
C28_NoConcurrentUseOfSession ==
    ~thr.overlap /\ ~thr.useAfterFree

\* C31: the session's input sequence grows by one when add_local_input
\* accepts the input and stays as it was when add_local_input refuses it.
C31_SequenceCountsAcceptedInputs ==
    [][(pc = "add" /\ pc' = "advance") =>
          currentInputSequence' =
              currentInputSequence + (IF ret'.ok THEN 1 ELSE 0)]_vars

\* a step of the state store's caller: the frame hook and the control
\* surface are where they were
StoreCall(op) == pc' = pc /\ ret' = ret /\ io'.op = op

AllButIo ==
    <<l_HasInitNetplay, l_HasInitRollbackNetplay, l_RollbackNetplay,
      l_RollbackLocalPlayer, l_RollbackMaxPlayers, instancePtr, ggpoSession,
      localPlayer, maxPlayers, initialized, currentFrame, currentInputSequence,
      lastSavedFrameInputSequence, localPlayerHandle, callbacksSet,
      rollbackJustOccurred, metrics, g_currentInputSequence, m_freeBuffers,
      m_usedBuffers, coreError, engState, engFrame, frontier, lastRemote, ring,
      peersConnected, localAdded, emuFrame, pc, hookLog, ret, rb, held, pad, thr,
      frameCallbackData, emulation>>

\* the operations of the control surface that need a session
SessionOps == {"add", "sync", "advance", "apply", "getMetrics", "justOccurred"}

\* C33: with no session, add_local_input, get_synchronized_inputs,
\* advance_frame, apply_inputs, get_metrics and just_rolled_back return false
\* and change nothing; a save, load, free or advance callback invoked while
\* the instance pointer is null fails and changes nothing.
C33_NothingWithoutSession ==
    [][/\ (~l_HasInitRollbackNetplay /\ pc' = pc /\ io' = io
             /\ ret'.op \in SessionOps)
            => (~ret'.ok /\ UNCHANGED AllButRet)
       /\ (~instancePtr /\ io'.op \in Callbacks /\ io' # io)
            => (~io'.ok /\ UNCHANGED AllButIo)]_vars

\* after a session that played a frame has ended, get_metrics was refused
\* and the save callback has failed
C33_Witness ==
    /\ ~l_HasInitRollbackNetplay
    /\ g_currentInputSequence = 1
    /\ ret = Ret("getMetrics", FALSE)
    /\ io.op = "cb.save"
    /\ ~io.ok

\* C34: whenever no session is initialized, after an init that failed at any
\* of its steps included, the instance pointer is null and no session object
\* and no engine session is retained, so that the next init is not refused
\* because an instance is already active.
C34_FailedInitRetryable ==
    ~l_HasInitRollbackNetplay =>
        /\ ~instancePtr
        /\ ~l_RollbackNetplay
        /\ ~ggpoSession
        /\ ~initialized
        /\ engState = "None"

\* an init has succeeded after an init that failed (the error text of the
\* failure is still the last one set)
C34_Witness ==
    /\ l_HasInitRollbackNetplay
    /\ ret = Ret("init", TRUE)
    /\ coreError = ErrFailedInit
    /\ initialized

C36_InputSequencesAgree ==
    (pc = "idle" /\ l_HasInitRollbackNetplay) =>
        /\ currentInputSequence = g_currentInputSequence
        /\ \A sn \in ring :
              (\A other \in ring : other.frame <= sn.frame)
                  => sn.seq = lastSavedFrameInputSequence

\* C37: in an execution of the frame hook, a virtual controller is written
\* only if it belongs to a player of the session, and then with the slot
\* that synchronize_inputs filled for that player.
C37_HookWritesSynchronizedOnly ==
    pad.op = "hookApply" =>
        \A i \in 0..3 :
            (pad.written[i].setButtons \/ pad.written[i].setAxis) =>
                /\ i < pad.n
                /\ pad.written[i].from = i

\* C38: traditional netplay and rollback netplay are never both initialized.
C38_NetplayModesExclusive ==
    ~(l_HasInitNetplay /\ l_HasInitRollbackNetplay)

\* C39: whenever CoreStartEmulation is not under way, no rollback session is
\* initialized and no frame callback record is allocated.
C39_SessionEndsWithEmulation ==
    emulation = "off" => (~l_HasInitRollbackNetplay /\ ~frameCallbackData)

\* C40: in an initialized session every remote player's handle was stored at
\* an index of remotePlayerHandles, an array of GGPO_MAX_PLAYERS - 1 elements.
C40_RemoteHandlesInBounds ==
    initialized =>
        \A i \in RemoteHandleIndices(localPlayer, maxPlayers) :
            i \in 0..(GGPO_MAX_PLAYERS - 2)

====
